---- MODULE Spec2Model ----
(***************************************************************************)
(* Antrea agent: CNI server (CmdAdd / CmdDel / CmdCheck), the container    *)
(* access arbitrator, the startup reconciler, and the parts of the OVS     *)
(* bridge, interface store, IPAM driver and OpenFlow client they drive.    *)
(***************************************************************************)
EXTENDS Integers, FiniteSets, Sequences, TLC

\* ------------------------------------------------------------------ bounds
NumHandlers == 2        \* gRPC worker goroutines serving requests concurrently
MaxContainers == 3      \* container ids 1..MaxContainers
MaxUUID == 2            \* OVS port UUIDs 1..MaxUUID available to CreatePort
MaxMAC == 1             \* MAC addresses a veth end may be given
IPBits == 3              \* bits of an IP address
MaxIPs == 2              \* addresses in an IPAM result
MaxRoutes == 2           \* routes in an IPAM result
DialMaxTime == 32       \* seconds the dialer is followed for
MaxRequests == 3        \* requests the server accepts in one run

Handlers == 1..NumHandlers
ContainerIDs == 1..MaxContainers
UUIDs == 1..MaxUUID
MACs == 1..MaxMAC

\* A container id belongs to one pod; a pod sandbox that is re-created keeps
\* its (name, namespace) and gets a new container id.
PodOf(c) == (c + 1) \div 2
Pods == {PodOf(c) : c \in ContainerIDs}

\* ------------------------------------------------------------- naming, ids
\* Host-side veth name: a deterministic function of (pod name, namespace),
\* distinct from the names of the bridge's own ports (gateway: 1).
GenerateContainerInterfaceName(p) == 10 + p

\* The address the IPAM driver hands to a container.
IPOf(c) == 100 + c

\* The OpenFlow port number OVS assigns to the interface of a port.
OFPortOf(u) == 20 + u

\* --------------------------------------------------------- CNI error codes
OK == "OK"
DECODING_FAILURE == "DECODING_FAILURE"
INCOMPATIBLE_CNI_VERSION == "INCOMPATIBLE_CNI_VERSION"
UNSUPPORTED_FIELD == "UNSUPPORTED_FIELD"
IPAM_FAILURE == "IPAM_FAILURE"
CONFIG_INTERFACE_FAILURE == "CONFIG_INTERFACE_FAILURE"
TRY_AGAIN_LATER == "TRY_AGAIN_LATER"
CHECK_INTERFACE_FAILURE == "CHECK_INTERFACE_FAILURE"
INVALID_NETWORK_CONFIG == "INVALID_NETWORK_CONFIG"
NoResp == "none"

\* ------------------------------------------------------------ CNI versions
\* supportedCNIVersions = "0.1.0,0.2.0,0.3.0,0.3.1,0.4.0"
\* The comma-separated list as the sequence of its items; a version string
\* "a.b.c" as the tuple of its numbers.
supportedCNIVersions == <<(<<0, 1, 0>>), (<<0, 2, 0>>), (<<0, 3, 0>>), (<<0, 3, 1>>), (<<0, 4, 0>>)>>
\* buildVersionSet: split the list and key a set by every item.
buildVersionSet(versions) == {versions[i] : i \in DOMAIN versions}
isCNIVersionSupported(v) == v \in buildVersionSet(supportedCNIVersions)

\* A comparison that leaves out equality.
GreaterThanOrEqualTo_strict(a, b) ==
    \/ a[1] > b[1]
    \/ a[1] = b[1] /\ a[2] > b[2]
    \/ a[1] = b[1] /\ a[2] = b[2] /\ a[3] > b[3]

\* version.GreaterThanOrEqualTo(a, b): lexicographic on (major, minor, micro)
GreaterThanOrEqualTo(a, b) ==
    \/ a[1] > b[1]
    \/ a[1] = b[1] /\ a[2] > b[2]
    \/ a[1] = b[1] /\ a[2] = b[2] /\ a[3] >= b[3]

\* ---------------------------------------------------------------- requests
\* prevResult of a CHECK request: absent, undecodable, or a result naming
\* the container interface (cont), the host veth (host) and a MAC.
\* StaleMAC is a MAC no interface of this node has.
StaleMAC == MaxMAC + 1
PrevResults ==
    {[kind |-> "none", cont |-> FALSE, host |-> FALSE, mac |-> 0],
     [kind |-> "bad", cont |-> FALSE, host |-> FALSE, mac |-> 0],
     [kind |-> "result", cont |-> FALSE, host |-> TRUE, mac |-> 1],
     [kind |-> "result", cont |-> TRUE, host |-> FALSE, mac |-> 1]}
    \cup [kind : {"result"}, cont : {TRUE}, host : {TRUE}, mac : MACs \cup {StaleMAC}]
NoPrev == [kind |-> "none", cont |-> FALSE, host |-> FALSE, mac |-> 0]

Verbs == {"ADD", "DEL", "CHECK"}
Request(verb, c, dec, ver, ipamOK, prev) ==
    [verb |-> verb, cid |-> c, pod |-> PodOf(c), decodable |-> dec,
     version |-> ver, ipamValid |-> ipamOK, prev |-> prev]
\* Requests a client can send.  An invalid request is invalid in one way.
ValidRequests ==
    {Request(v, c, TRUE, ver, TRUE, NoPrev) :
        v \in {"ADD", "DEL"}, c \in ContainerIDs, ver \in {<<0, 4, 0>>}}
    \cup {Request("CHECK", c, TRUE, <<0, 3, 1>>, TRUE, NoPrev) : c \in ContainerIDs}
    \cup {Request("CHECK", c, TRUE, <<0, 4, 0>>, TRUE, p) :
            c \in ContainerIDs, p \in PrevResults}
InvalidRequests ==
    {Request(v, 1, FALSE, <<0, 4, 0>>, TRUE, NoPrev) : v \in Verbs}
    \cup {Request(v, 1, TRUE, <<0, 5, 0>>, TRUE, NoPrev) : v \in Verbs}
    \cup {Request(v, 1, TRUE, <<0, 4, 0>>, FALSE, NoPrev) : v \in Verbs}
Requests == ValidRequests \cup InvalidRequests
NoReq == Request("none", 1, TRUE, <<0, 4, 0>>, TRUE, NoPrev)

\* ------------------------------------------------------------------- state
VARIABLES
    busyContainerIDs,   \* containerAccessArbitrator.busyContainerIDs
    waiting,            \* goroutines blocked in arbitrator.cond.Wait()
    pc,                 \* per handler: position in CmdAdd / CmdDel / CmdCheck
    req,                \* per handler: the request being served
    resp,               \* per handler: the response code being returned
    fr,                 \* per handler: locals of the running call
    ipamAlloc,          \* container ids with an address allocated by IPAM
    veths,              \* host veth name -> MAC of the container end
    ovsPorts,           \* Port rows on the bridge (OVSDB, persistent)
    ifaceStore,         \* interface name -> container interface record
    flows,              \* interface name -> installed pod flows
    podList,            \* pods scheduled to this node (K8s API)
    rcpc,               \* agent position: boot, reconcile loops, serving
    served,             \* number of requests accepted so far
    rc,                 \* locals of reconcile and what it has invoked
    bridgeRow,          \* _uuid of the Bridge row named br.name, "" if none
    br,                 \* the OVSBridge client struct
    call,               \* the last call of an OVSBridge method and its return
    fn,                 \* the last call of a helper of the CNI server: argument, return
    dial                \* NewOVSDBConnectionUDS: its locals and its goroutine

\* The OVSDB client and its connection.
cvars == <<bridgeRow, br, call, dial, fn>>

vars == <<busyContainerIDs, waiting, pc, req, resp, fr, ipamAlloc, veths,
          ovsPorts, ifaceStore, flows, podList, rcpc, served, rc, cvars>>

\* ------------------------------------------------------- maps as functions
Put(f, k, v) == [x \in DOMAIN f \cup {k} |-> IF x = k THEN v ELSE f[x]]
Drop(f, k) == [x \in DOMAIN f \ {k} |-> f[x]]
EmptyMap == [x \in {} |-> 0]
Min(S) == CHOOSE x \in S : \A y \in S : x <= y

\* ----------------------------------------------------------- OVS port data
\* OVSPortData with the external IDs flattened: cid = antrea-iface-id,
\* pod = pod-name/pod-namespace, mac, ip.  0 stands for an absent key.
PortRow(u, name, ofport, c, p, mac, ip) ==
    [UUID |-> u, Name |-> name, OFPort |-> ofport,
     cid |-> c, pod |-> p, mac |-> mac, ip |-> ip]
\* The gateway port of the bridge: no container-id, no pod name.
GatewayPort == PortRow(0, 1, 1, 0, 0, 0, 0)

\* ------------------------------------------------- interface store records
ContainerInterface(c, p, name, mac, ip, u, ofport) ==
    [ID |-> c, PodName |-> p, IfaceName |-> name, MAC |-> mac, IP |-> ip,
     PortUUID |-> u, OFPort |-> ofport]

\* BuildOVSPortExternalIDs: the external IDs written for a record.
BuildOVSPortExternalIDs(r) == [cid |-> r.ID, pod |-> r.PodName, mac |-> r.MAC, ip |-> r.IP]

\* InterfaceStore.GetContainerInterface(podName, podNamespace)
HasContainerInterface(store, p) == \E n \in DOMAIN store : store[n].PodName = p
GetContainerInterface(store, p) == store[CHOOSE n \in DOMAIN store : store[n].PodName = p]
\* InterfaceStore.GetInterfaceIDs()
GetInterfaceIDs(store) == DOMAIN store
\* InterfaceStore.GetInterface(ifaceID)
HasInterface(store, name) == name \in DOMAIN store
GetInterface(store, name) == store[name]
\* The records found under a container id.
InterfacesOfContainer(store, c) == {store[n] : n \in {x \in DOMAIN store : store[x].ID = c}}
\* A store that files a record under its container id.
AddInterface_byID(store, r) == Put(store, r.ID, r)
\* InterfaceStore.AddInterface / DeleteInterface
AddInterface(store, r) == Put(store, r.IfaceName, r)
DeleteInterface(store, name) == Drop(store, name)

\* InterfaceStore.Len()
StoreLen(store) == Cardinality(DOMAIN store)

\* An Initialize that builds a record for every port row.
Tagged_any(p) == TRUE

\* A port row carries the container marker: a non-empty container id among
\* its external IDs.
Tagged(p) == p.cid # 0

\* InterfaceStore.Initialize on a successful GetPortList: one record per
\* port row whose external IDs hold a non-empty container id.
InitializeStore(ports) ==
    LET tagged == {p \in ports : Tagged(p)}
    IN [n \in {p.Name : p \in tagged} |->
          LET p == CHOOSE q \in tagged : q.Name = n
          IN ContainerInterface(p.cid, p.pod, p.Name, p.mac, p.ip, p.UUID, p.OFPort)]

\* An Initialize that loads the rows it was given whatever the error.
StoreAfterInitialize_loadRows(store, rows, err) == InitializeStore(rows)

\* The store after Initialize, given what GetPortList returned: emptied on
\* any error, rebuilt from the rows otherwise.
StoreAfterInitialize(store, rows, err) ==
    IF err THEN EmptyMap ELSE InitializeStore(rows)

\* ------------------------------------------------------------------- flows
\* InstallPodFlows(ifName, ip, mac, gwMAC, ofport); cid records on whose
\* behalf the flows were installed.
PodFlows(r) == [ip |-> r.IP, mac |-> r.MAC, ofport |-> r.OFPort, cid |-> r.ID]

\* ---------------------------------------------------------- handler locals
\* arrived: the handler has called lockContainer and found the id busy;
\* ahead: the handlers that had arrived for the same container id, and not
\* yet entered, when this request came in; ipamDeletes: calls of
\* ExecIPAMDelete made; deleted: the UUID handed to OVS port deletion.
\* ofwait: how the transaction of GetOFPort ended ("" before the call and
\* after a commit without error).
NoFrame == [mac |-> 0, uuid |-> 0, ofport |-> 0, rollback |-> FALSE, addResp |-> NoResp,
            arrived |-> FALSE, ahead |-> {}, ipamDeletes |-> 0, deleted |-> 0,
            ofwait |-> "", steps |-> <<>>]
\* The last call of InterfaceStore.Initialize: tick flips at every call,
\* err and rows are what GetPortList returned, held is Len() before the call.
NoInit == [tick |-> FALSE, err |-> FALSE, rows |-> {}, held |-> 0]
NoRc == [pods |-> {}, known |-> {}, desired |-> {}, store0 |-> EmptyMap,
         installCalls |-> {}, installed |-> {}, deleteCalls |-> {}, listErr |-> FALSE,
         init |-> NoInit, installs |-> <<>>]

\* ------------------------------------------------------------ OVSDB client
\* br.uuid before the bridge has been looked up or created.
NoUUID == ""
\* The _uuid OVSDB gives the Bridge row.
BridgeUUID == "bridge-uuid"
\* What tx.Commit() returns: the results and no error, or an error with the
\* library's temporary flag.
CommitOK == [err |-> FALSE, temporary |-> FALSE, msg |-> ""]
\* The "wait" operation of the transaction ran into its timeout.
CommitTimedOut == [err |-> TRUE, temporary |-> TRUE, msg |-> "timed out"]
CommitErrors ==
    {[err |-> TRUE, temporary |-> t, msg |-> m] :
        t \in BOOLEAN, m \in {"timed out", "constraint violation"}}
Commits == {CommitOK} \cup CommitErrors
\* NewTransactionError(err, temporary); NoError is a nil Error.
NoError == [err |-> FALSE, temporary |-> FALSE, msg |-> ""]
NewTransactionError(msg, temporary) == [err |-> TRUE, temporary |-> temporary, msg |-> msg]

\* OVSBridge.GetOFPort(ifName): one transaction, wait until ofport is set
\* (1000 ms) then select it.  ofport is the value of the column once the
\* wait is over.
GetOFPort(commit, ofport) ==
    IF commit.err
    THEN [ofport |-> 0, error |-> NewTransactionError(commit.msg, commit.temporary)]
    ELSE [ofport |-> ofport, error |-> NoError]

\* What a method returns: its data, its Error, and the cached br.uuid it
\* leaves; a method that panics returns nothing.
MethodReturn(data, error, uuid) ==
    [data |-> data, error |-> error, panic |-> FALSE, uuid |-> uuid]
Panic(uuid) == [data |-> "", error |-> NoError, panic |-> TRUE, uuid |-> uuid]
\* A nil pointer, slice or map, and one that holds items.
Nil == [nil |-> TRUE, items |-> {}]
Ref(items) == [nil |-> FALSE, items |-> items]

\* res[0].Rows[0] of a select on the Bridge table: reading it panics when no
\* row matches br.name.
HasBridgeRow(row) == row # NoUUID

\* Methods that commit one transaction and return its error only:
\* updateProtocols, Delete, SetExternalIDs, DeletePorts, DeletePort,
\* SetInterfaceMTU.
commitOnly(commit, uuid) ==
    IF commit.err
    THEN MethodReturn("", NewTransactionError(commit.msg, commit.temporary), uuid)
    ELSE MethodReturn("", NoError, uuid)

lookupByName(commit, uuid, row) ==
    IF commit.err
    THEN MethodReturn(FALSE, NewTransactionError(commit.msg, commit.temporary), uuid)
    ELSE IF ~HasBridgeRow(row) THEN MethodReturn(FALSE, NoError, uuid)
    ELSE MethodReturn(TRUE, NoError, row)

updateProtocols(commit, uuid) == commitOnly(commit, uuid)

create(commit, uuid) ==
    IF commit.err
    THEN MethodReturn("", NewTransactionError(commit.msg, commit.temporary), uuid)
    ELSE MethodReturn("", NoError, BridgeUUID)

\* OVSBridge.Create: look the bridge up, then update its protocols or
\* create it; c1 and c2 are the commits of the two transactions.
Create(c1, c2, uuid, row) ==
    LET l == lookupByName(c1, uuid, row)
    IN IF l.error.err THEN MethodReturn("", l.error, l.uuid)
       ELSE IF l.data THEN updateProtocols(c2, l.uuid)
       ELSE create(c2, l.uuid)

Delete(commit, uuid) == commitOnly(commit, uuid)
SetExternalIDs(commit, uuid) == commitOnly(commit, uuid)
DeletePorts(commit, uuid) == commitOnly(commit, uuid)
DeletePort(commit, uuid) == commitOnly(commit, uuid)
SetInterfaceMTU(commit, uuid) == commitOnly(commit, uuid)

GetExternalIDs(commit, uuid, row) ==
    IF commit.err
    THEN MethodReturn(Nil, NewTransactionError(commit.msg, commit.temporary), uuid)
    ELSE IF ~HasBridgeRow(row) THEN Panic(uuid)
    ELSE MethodReturn(Ref({}), NoError, uuid)

GetPortUUIDList(commit, uuid, row, ports) ==
    IF commit.err
    THEN MethodReturn(Nil, NewTransactionError(commit.msg, commit.temporary), uuid)
    ELSE IF ~HasBridgeRow(row) THEN Panic(uuid)
    ELSE MethodReturn(Ref({q.UUID : q \in ports}), NoError, uuid)

\* What tx.Commit() returns for the three operations of createPort: the
\* UUID of the inserted Interface row, the UUID of the inserted Port row and
\* the count of the mutated Bridge rows.  An Interface UUID is no Port UUID.
InterfaceUUID(u) == MaxUUID + u
createPortResults(u) == <<[UUID |-> InterfaceUUID(u)], [UUID |-> u], [Count |-> 1]>>

createPort_permanent(commit, uuid, res) ==
    IF commit.err
    THEN MethodReturn(0, NewTransactionError(commit.msg, FALSE), uuid)
    ELSE MethodReturn(res[2].UUID, NoError, uuid)

createPort_interfaceUUID(commit, uuid, res) ==
    IF commit.err
    THEN MethodReturn(0, NewTransactionError(commit.msg, commit.temporary), uuid)
    ELSE MethodReturn(res[1].UUID, NoError, uuid)

\* createPort returns res[1].UUID[1], the UUID of the inserted Port row
\* (res is indexed from 1 here; 0 stands for "").
createPort(commit, uuid, res) ==
    IF commit.err
    THEN MethodReturn(0, NewTransactionError(commit.msg, commit.temporary), uuid)
    ELSE MethodReturn(res[2].UUID, NoError, uuid)

\* The ofport column of an Interface row as a select returns it: the number
\* OVS assigned, or the empty set while it has assigned none (the rows of the
\* model hold 0 then).
EmptyColumn == [set |-> {}]
Number(n) == [float64 |-> n]
ofportColumn(q) == IF q.OFPort = 0 THEN EmptyColumn ELSE Number(q.OFPort)

buildPortDataCommon_unassigned(port, ofport) ==
    [port EXCEPT !.OFPort = IF "float64" \in DOMAIN ofport THEN ofport.float64 ELSE -1]

\* buildPortDataCommon: name and external IDs from the Port row, OFPort
\* from the Interface row when its ofport is a number, else 0.
buildPortDataCommon(port, ofport) ==
    [port EXCEPT !.OFPort = IF "float64" \in DOMAIN ofport THEN ofport.float64 ELSE 0]

\* Port and Interface rows are one row here: the interface named ifName is
\* the one of the port of that name.
GetPortData(commit, uuid, ports, portUUID, ifName) ==
    IF commit.err
    THEN MethodReturn(Nil, NewTransactionError(commit.msg, commit.temporary), uuid)
    ELSE IF \A q \in ports : q.UUID # portUUID THEN MethodReturn(Nil, NoError, uuid)
    ELSE IF \A q \in ports : q.Name # ifName
    THEN MethodReturn(Nil, NewTransactionError("Interface not exists", FALSE), uuid)
    ELSE IF \A q \in ports : q.Name = ifName => q.UUID # portUUID
    THEN MethodReturn(Nil, NewTransactionError("Interface is not attached to the port", FALSE),
                      uuid)
    ELSE MethodReturn(Ref({buildPortDataCommon(q, ofportColumn(q)) :
                              q \in {x \in ports : x.UUID = portUUID}}),
                      NoError, uuid)

\* One OVSPortData per UUID of the bridge's ports column.
GetPortList(commit, uuid, row, ports) ==
    IF commit.err
    THEN MethodReturn(Nil, NewTransactionError(commit.msg, commit.temporary), uuid)
    ELSE IF ~HasBridgeRow(row) THEN MethodReturn(Ref({}), NoError, uuid)
    ELSE MethodReturn(Ref({buildPortDataCommon(q, ofportColumn(q)) : q \in ports}),
                      NoError, uuid)

\* The zero value of what a method returns beside its Error.
ZeroData(op) ==
    CASE op \in {"GetExternalIDs", "GetPortUUIDList", "GetPortData", "GetPortList"} -> Nil
      [] op \in {"CreatePort", "GetOFPort"} -> 0
      [] OTHER -> ""

\* No helper of the CNI server has been called yet.
NoFn == [op |-> "none"]

\* No method of the client has been called yet.
NoArgs == [port |-> 0, ifName |-> 0]
NoCall == [op |-> "none", commits |-> <<>>, args |-> NoArgs,
           ret |-> MethodReturn("", NoError, NoUUID)]
\* NewOVSDBConnectionUDS has returned and its goroutine has ended.
Dialed == [pc |-> "returned", address |-> "/run/openvswitch/db.sock", reachable |-> TRUE,
           success |-> 0, logger |-> "done", backoff |-> 1, deadline |-> 0,
           now |-> 0, msgs |-> <<>>, error |-> NoError]
\* The agent's client once the bridge has been looked up: the connection is
\* up and br.uuid is cached.
ClientReady ==
    /\ bridgeRow = BridgeUUID
    /\ br = [uuid |-> BridgeUUID]
    /\ call = NoCall
    /\ fn = NoFn
    /\ dial = Dialed

\* ------------------------------------------------------------------ Init
\* The agent (re)starts.  OVSDB is persistent: the bridge holds the gateway
\* port and, per pod, at most one container port left by an earlier run,
\* with its veth and IPAM allocation.  Flows are gone, the store is empty.
BootPort(c, assigned) ==
    PortRow(PodOf(c), GenerateContainerInterfaceName(PodOf(c)),
            IF assigned THEN OFPortOf(PodOf(c)) ELSE 0, c, PodOf(c), 1, IPOf(c))
BootPortSets ==
    {S \in SUBSET {BootPort(c, a) : c \in ContainerIDs, a \in BOOLEAN} :
        \A p, q \in S : p.Name = q.Name => p = q}
PodLists ==
    {L \in SUBSET [pod : Pods, hostNetwork : BOOLEAN] :
        \A x, y \in L : x.pod = y.pod => x = y}

Init ==
    /\ busyContainerIDs = {}
    /\ waiting = {}
    /\ pc = [h \in Handlers |-> "idle"]
    /\ req = [h \in Handlers |-> NoReq]
    /\ resp = [h \in Handlers |-> NoResp]
    /\ fr = [h \in Handlers |-> NoFrame]
    /\ \E S \in BootPortSets :
         /\ ovsPorts = S \cup {GatewayPort}
         /\ ipamAlloc = {p.cid : p \in S}
         /\ veths = [n \in {p.Name : p \in S} |-> 1]
    /\ ifaceStore = EmptyMap
    /\ flows = EmptyMap
    /\ podList \in PodLists
    /\ rcpc = "boot"
    /\ served = 0
    /\ rc = NoRc
    /\ ClientReady

\* ============================================================ removeInterfaces
\* Detach semantics for the pod p: uninstall the pod flows, delete the OVS
\* port by the UUID of the store record, delete the host veth (only when a
\* network namespace is given), remove the store entry.  Every step is
\* taken even if an earlier one failed; err is TRUE iff some step failed.
\* Without a store record only the veth is removed.
removeInterfaces(p, netnsGiven, flowsOK, portOK, vethOK, err) ==
    LET name == GenerateContainerInterfaceName(p)
        found == HasContainerInterface(ifaceStore, p)
        r == GetContainerInterface(ifaceStore, p)
        hasVeth == netnsGiven /\ name \in DOMAIN veths
    IN  /\ veths' = IF hasVeth /\ vethOK THEN Drop(veths, name) ELSE veths
        /\ IF found
             THEN /\ flows' = IF flowsOK THEN Drop(flows, r.IfaceName) ELSE flows
                  /\ ovsPorts' = IF portOK
                                   THEN {q \in ovsPorts : q.UUID # r.PortUUID}
                                   ELSE ovsPorts
                  /\ ifaceStore' = DeleteInterface(ifaceStore, r.IfaceName)
             ELSE UNCHANGED <<flows, ovsPorts, ifaceStore>>
        /\ err = ((found /\ (~flowsOK \/ ~portOK)) \/ (hasVeth /\ ~vethOK))

\* ================================================================== startup
hvars == <<busyContainerIDs, waiting, pc, req, resp, fr, served, cvars>>
svars == <<podList, rcpc, served, rc, cvars>>

\* What GetPortList may return: the rows of the bridge and no error, or an
\* error, with no rows (the OVSDB client) or with rows (a mock client).
PortListResults ==
    {[rows |-> ovsPorts, err |-> FALSE],
     [rows |-> {}, err |-> TRUE],
     [rows |-> ovsPorts, err |-> TRUE]}

\* InterfaceStore.Initialize(ovsBridgeClient, ...): fetch the port list,
\* replace the contents of the store, return GetPortList's error.
InterfaceStoreInitialize ==
    /\ \E res \in PortListResults :
         /\ ifaceStore' = StoreAfterInitialize(ifaceStore, res.rows, res.err)
         /\ rcpc' = IF res.err THEN "store_failed" ELSE "list"
         /\ rc' = [rc EXCEPT !.init = [tick |-> ~rc.init.tick, err |-> res.err,
                                       rows |-> res.rows, held |-> StoreLen(ifaceStore)]]
    /\ UNCHANGED <<hvars, ipamAlloc, veths, ovsPorts, flows, podList>>

\* agent start: InterfaceStore.Initialize from the OVS port list.  On a
\* GetPortList error the agent does not start.
StoreInitialize ==
    /\ rcpc = "boot"
    /\ InterfaceStoreInitialize

\* reconcile: list the pods of this node; snapshot the known interfaces.
ReconcileList ==
    /\ rcpc = "list"
    /\ \E ok \in BOOLEAN :
         IF ok THEN /\ rc' = [rc EXCEPT !.pods = podList,
                                        !.known = GetInterfaceIDs(ifaceStore),
                                        !.store0 = ifaceStore]
                    /\ rcpc' = "pods"
               ELSE /\ rc' = [rc EXCEPT !.listErr = TRUE]
                    /\ rcpc' = "failed"
    /\ UNCHANGED <<hvars, ipamAlloc, veths, ovsPorts, ifaceStore, flows, podList>>

\* desiredInterfaces after the InstallPodFlows call for interface n: the
\* error branch continues the loop before the interface is recorded.
DesiredAfterInstall(desired, n, ok) == IF ok THEN desired \cup {n} ELSE desired

\* A first loop that gives up on the first InstallPodFlows error.
AfterInstall_abort(ok) == IF ok THEN "pods" ELSE "failed"

\* Where reconcile goes after InstallPodFlows returned: the error is logged
\* and the loop goes on with the next pod.
AfterInstall(ok) == "pods"

\* A first loop that does not look at pod.Spec.HostNetwork.
InCharge_all(pod) == TRUE
\* Pods the agent is in charge of the networking of.
InCharge(pod) == ~pod.hostNetwork

\* reconcile, first loop: one iteration for one pod of the list.  installs
\* lists the pods InstallPodFlows was called for, in the order of the calls.
ReconcilePod ==
    /\ rcpc = "pods"
    /\ rc.pods # {}
    /\ LET pod == CHOOSE x \in rc.pods : \A y \in rc.pods : x.pod <= y.pod
           rest == rc.pods \ {pod}
       IN IF ~InCharge(pod) \/ ~HasContainerInterface(ifaceStore, pod.pod)
          THEN /\ rc' = [rc EXCEPT !.pods = rest]
               /\ flows' = flows
               /\ rcpc' = rcpc
          ELSE LET containerConfig == GetContainerInterface(ifaceStore, pod.pod)
                   n == containerConfig.IfaceName
               IN \E ok \in BOOLEAN :
                     /\ rcpc' = AfterInstall(ok)
                     /\ IF ok
                        THEN /\ flows' = Put(flows, n, PodFlows(containerConfig))
                             /\ rc' = [rc EXCEPT !.pods = rest,
                                                 !.installCalls = @ \cup {n},
                                                 !.installs = Append(@, pod.pod),
                                                 !.installed = @ \cup {n},
                                                 !.desired = DesiredAfterInstall(@, n, TRUE)]
                        ELSE /\ flows' = flows
                             /\ rc' = [rc EXCEPT !.pods = rest,
                                                 !.installCalls = @ \cup {n},
                                                 !.installs = Append(@, pod.pod),
                                                 !.desired = DesiredAfterInstall(@, n, FALSE)]
    /\ UNCHANGED <<hvars, ipamAlloc, veths, ovsPorts, ifaceStore, podList>>

ReconcilePodsDone ==
    /\ rcpc = "pods"
    /\ rc.pods = {}
    /\ rcpc' = "ifaces"
    /\ UNCHANGED <<hvars, ipamAlloc, veths, ovsPorts, ifaceStore, flows, podList, rc>>

\* A second loop that also takes a record with a pod name for a non-container
\* interface.
SkipInterface_podNamed(ifaceID) ==
    \/ ifaceID \in rc.desired
    \/ ifaceID \notin DOMAIN ifaceStore
    \/ ifaceStore[ifaceID].PodName # 0

\* Whether the second loop leaves the interface ifaceID alone.
SkipInterface(ifaceID) ==
    \/ ifaceID \in rc.desired
    \/ ifaceID \notin DOMAIN ifaceStore
    \/ ifaceStore[ifaceID].PodName = 0

\* reconcile, second loop: one iteration for one known interface.
ReconcileIface ==
    /\ rcpc = "ifaces"
    /\ rc.known # {}
    /\ LET ifaceID == Min(rc.known)
           rest == rc.known \ {ifaceID}
       IN IF SkipInterface(ifaceID)
          THEN /\ rc' = [rc EXCEPT !.known = rest]
               /\ UNCHANGED <<veths, ovsPorts, ifaceStore, flows>>
          ELSE LET containerConfig == ifaceStore[ifaceID]
               IN /\ \E flowsOK, portOK \in BOOLEAN, err \in BOOLEAN :
                       removeInterfaces(containerConfig.PodName, FALSE,
                                        flowsOK, portOK, TRUE, err)
                  /\ rc' = [rc EXCEPT
                              !.known = rest,
                              !.deleteCalls =
                                 IF HasContainerInterface(ifaceStore, containerConfig.PodName)
                                 THEN @ \cup {GetContainerInterface(
                                                ifaceStore, containerConfig.PodName).PortUUID}
                                 ELSE @]
    /\ UNCHANGED <<hvars, ipamAlloc, podList, rcpc>>

\* reconcile returns nil.
ReconcileDone ==
    /\ rcpc = "ifaces"
    /\ rc.known = {}
    /\ rcpc' = "reconciled"
    /\ UNCHANGED <<hvars, ipamAlloc, veths, ovsPorts, ifaceStore, flows, podList, rc>>

\* A server that is started without waiting for Initialize.
CanRun_anytime(p) == p # "serving"

\* The agent calls Run only once Initialize (reconcile) has returned nil.
CanRun(p) == p = "reconciled"

\* CNIServer.Run: the gRPC server starts serving requests.
Run ==
    /\ CanRun(rcpc)
    /\ rcpc' = "serving"
    /\ rc' = NoRc
    /\ UNCHANGED <<hvars, ipamAlloc, veths, ovsPorts, ifaceStore, flows, podList>>

\* ================================================= containerAccessArbitrator
\* A single global lock: the id is free only when no id is held.
CanLock_global(c, busy) == busy = {}

\* A lockContainer that takes the id without looking at the busy set.
CanLock_ignoreBusy(c, busy) == TRUE

\* lockContainer's loop test: the container id is free.
CanLock(c, busy) == c \notin busy

\* Where a handler continues once it holds its container id.
AfterLock(p) ==
    CASE p = "add_lock" -> "add_ipam"
      [] p = "del_lock" -> "del_ipam"
      [] p = "chk_lock" -> "chk_ipam"

LockPcs == {"add_lock", "del_lock", "chk_lock"}
\* The handlers blocked in cond.Wait() for the container id c.
WaitersFor(c) == {g \in waiting : req[g].cid = c}
\* The handlers that have called lockContainer(c) and not yet returned from it.
ArrivedFor(c) == {g \in Handlers : pc[g] \in LockPcs /\ fr[g].arrived /\ req[g].cid = c}

\* lockContainer: under the arbitrator's mutex, take the id if it is free,
\* else block in cond.Wait() until the next Broadcast.
lockContainer(h) ==
    /\ pc[h] \in LockPcs
    /\ h \notin waiting
    /\ IF CanLock(req[h].cid, busyContainerIDs)
       THEN /\ busyContainerIDs' = busyContainerIDs \cup {req[h].cid}
            /\ pc' = [pc EXCEPT ![h] = AfterLock(pc[h])]
            /\ waiting' = waiting
            /\ fr' = [g \in Handlers |->
                        [fr[g] EXCEPT !.ahead = IF g = h THEN {} ELSE @ \ {h},
                                      !.arrived = IF g = h THEN FALSE ELSE @]]
       ELSE /\ waiting' = waiting \cup {h}
            /\ fr' = [fr EXCEPT ![h].arrived = TRUE]
            /\ UNCHANGED <<busyContainerIDs, pc>>
    /\ UNCHANGED <<req, resp, ipamAlloc, veths, ovsPorts, ifaceStore, flows,
                   svars>>

\* An unlockContainer that leaves the id in the busy set.
BusyAfterUnlock_held(busy, c) == busy

\* unlockContainer: delete the id from the busy set and Broadcast.
BusyAfterUnlock(busy, c) == busy \ {c}

\* An unlockContainer that wakes nobody.
WaitingAfterBroadcast_none(w) == w

\* cond.Broadcast(): every goroutine blocked in cond.Wait() is woken.
WaitingAfterBroadcast(w) == {}

\* A CmdCheck whose early returns leave without unlockContainer.
DeferredUnlock_checkSkips(verb) ==
    CASE verb = "ADD" -> "add_unlock"
      [] verb = "DEL" -> "del_unlock"
      [] verb = "CHECK" -> "idle"

\* The deferred unlockContainer every exit path of a handler runs through.
DeferredUnlock(verb) ==
    CASE verb = "ADD" -> "add_unlock"
      [] verb = "DEL" -> "del_unlock"
      [] verb = "CHECK" -> "chk_unlock"

\* A handler is between its lockContainer and its unlockContainer.
CriticalPcs ==
    {"add_ipam", "add_veth", "add_port", "add_ofport", "add_store", "add_flows",
     "add_unlock", "del_ipam", "del_remove", "del_entry", "del_unlock",
     "chk_ipam", "chk_prev", "chk_unlock"}
InCritical(h) == pc[h] \in CriticalPcs

\* ======================================================= checkRequestMessage
\* A validation that looks at the IPAM type before the CNI version.
checkRequestMessage_ipamFirst(r) ==
    IF ~r.decodable THEN DECODING_FAILURE
    ELSE IF ~r.ipamValid THEN UNSUPPORTED_FIELD
    ELSE IF ~isCNIVersionSupported(r.version) THEN INCOMPATIBLE_CNI_VERSION
    ELSE OK

checkRequestMessage(r) ==
    IF ~r.decodable THEN DECODING_FAILURE
    ELSE IF ~isCNIVersionSupported(r.version) THEN INCOMPATIBLE_CNI_VERSION
    ELSE IF ~r.ipamValid THEN UNSUPPORTED_FIELD
    ELSE OK

\* A handler that takes the lock whatever the validation said.
AfterValidation_lockFirst(code, lockPc) == lockPc

\* Where a handler goes with the response of checkRequestMessage: it returns
\* the response at once if there is one, else goes on to lockContainer.
AfterValidation(code, lockPc) == IF code # OK THEN "rejected" ELSE lockPc

\* A worker goroutine receives a request of the given verb out of R and
\* validates it.  A request that fails validation is answered at once (pc
\* "rejected": the response just returned); the goroutine is free for the
\* next request.
Accept(h, verb, lockPc, R) ==
    /\ rcpc = "serving"
    /\ pc[h] \in {"idle", "rejected"}
    /\ \E r \in R :
         LET code == checkRequestMessage(r)
         IN /\ r.verb = verb
            /\ req' = [req EXCEPT ![h] = r]
            /\ resp' = [resp EXCEPT ![h] = IF code # OK THEN code ELSE NoResp]
            /\ pc' = [pc EXCEPT ![h] = AfterValidation(code, lockPc)]
            /\ fr' = [fr EXCEPT ![h] =
                        [NoFrame EXCEPT !.ahead = IF code # OK THEN {}
                                                  ELSE ArrivedFor(r.cid)]]
    /\ UNCHANGED <<busyContainerIDs, waiting, ipamAlloc, veths, ovsPorts,
                   ifaceStore, flows, podList, rcpc, rc, cvars>>

\* One of the MaxRequests requests of a run is received.
Receive(h, verb, lockPc) ==
    /\ served < MaxRequests
    /\ served' = served + 1
    /\ Accept(h, verb, lockPc, Requests)

\* An early return of a handler that holds the lock: the response is set and
\* the deferred calls are next.
Fail(h, code) ==
    /\ resp' = [resp EXCEPT ![h] = code]
    /\ pc' = [pc EXCEPT ![h] = DeferredUnlock(req[h].verb)]

\* ==================================================================== CmdAdd
CmdAddStart(h) == Receive(h, "ADD", "add_lock")

\* CmdAdd after ipam.ExecIPAMAdd: an error returns the IPAM failure
\* response, otherwise configureInterface is next.
AfterIPAMAdd_ignoreError(ok) == "add_veth"
AfterIPAMAdd(ok) == IF ok THEN "add_veth" ELSE "add_unlock"

\* ipam.ExecIPAMAdd
CmdAddIPAM(h) ==
    /\ pc[h] = "add_ipam"
    /\ \E ok \in BOOLEAN :
         /\ ipamAlloc' = IF ok THEN ipamAlloc \cup {req[h].cid} ELSE ipamAlloc
         /\ pc' = [pc EXCEPT ![h] = AfterIPAMAdd(ok)]
         /\ resp' = [resp EXCEPT ![h] = IF ok THEN resp[h] ELSE IPAM_FAILURE]
         /\ fr' = [fr EXCEPT ![h].steps = IF ok THEN Append(@, "ipam") ELSE @]
    /\ UNCHANGED <<busyContainerIDs, waiting, req, veths, ovsPorts,
                   ifaceStore, flows, svars>>

\* configureInterface, step 1: create the veth pair, host end named after
\* the pod; the kernel refuses a name that exists.
ConfigureVeth(h) ==
    /\ pc[h] = "add_veth"
    /\ LET name == GenerateContainerInterfaceName(req[h].pod)
       IN \/ /\ name \notin DOMAIN veths
             /\ \E m \in MACs :
                  /\ veths' = Put(veths, name, m)
                  /\ fr' = [fr EXCEPT ![h].mac = m, ![h].steps = Append(@, "veth")]
             /\ pc' = [pc EXCEPT ![h] = "add_port"]
             /\ resp' = resp
          \/ /\ Fail(h, CONFIG_INTERFACE_FAILURE)
             /\ UNCHANGED <<veths, fr>>
    /\ UNCHANGED <<busyContainerIDs, waiting, req, ipamAlloc, ovsPorts,
                   ifaceStore, flows, svars>>

\* UUIDs no Port row, store record or running handler refers to.
FreeUUIDs ==
    UUIDs \ ({q.UUID : q \in ovsPorts}
             \cup {ifaceStore[n].PortUUID : n \in DOMAIN ifaceStore}
             \cup {fr[g].uuid : g \in Handlers})

\* A record whose interface name is derived from the container id.
RecordOf_namedByContainer(h) ==
    ContainerInterface(req[h].cid, req[h].pod, 20 + req[h].cid,
                       fr[h].mac, IPOf(req[h].cid), fr[h].uuid, fr[h].ofport)

\* The record configureInterface builds for the container of handler h.
RecordOf(h) ==
    ContainerInterface(req[h].cid, req[h].pod,
                       GenerateContainerInterfaceName(req[h].pod),
                       fr[h].mac, IPOf(req[h].cid), fr[h].uuid, fr[h].ofport)

\* The Port row createPort inserts: name, external IDs, ofport unset.
NewPortRow(u, name, ext) == PortRow(u, name, 0, ext.cid, ext.pod, ext.mac, ext.ip)

\* configureInterface, step 2: OVSBridge.CreatePort(name, name, externalIDs).
\* The commit fails or inserts the rows; Port names are unique in OVSDB.
ConfigurePort(h) ==
    /\ pc[h] = "add_port"
    /\ LET name == GenerateContainerInterfaceName(req[h].pod)
       IN \/ /\ FreeUUIDs # {}
             /\ \A q \in ovsPorts : q.Name # name
             /\ LET u == Min(FreeUUIDs)
                IN /\ ovsPorts' = ovsPorts \cup
                        {NewPortRow(u, name, BuildOVSPortExternalIDs(RecordOf(h)))}
                   /\ fr' = [fr EXCEPT ![h].uuid = u, ![h].steps = Append(@, "port")]
             /\ pc' = [pc EXCEPT ![h] = "add_ofport"]
             /\ resp' = resp
          \/ /\ Fail(h, CONFIG_INTERFACE_FAILURE)
             /\ UNCHANGED <<ovsPorts, fr>>
    /\ UNCHANGED <<busyContainerIDs, waiting, req, ipamAlloc, veths,
                   ifaceStore, flows, svars>>

\* How the transaction of GetOFPort can end: when OVS has not set the
\* ofport within the wait, the wait times out; otherwise the commit
\* succeeds or fails for another reason.
OFPortCommits(assigned) ==
    IF assigned THEN {CommitOK, NewTransactionError("constraint violation", FALSE)}
    ELSE {CommitTimedOut}

\* configureInterface after GetOFPort: an error fails the ADD.
AfterGetOFPort(res) == IF res.error.err THEN "add_unlock" ELSE "add_store"

\* configureInterface, step 3: OVSBridge.GetOFPort(name).  OVS assigns the
\* ofport of the new interface, or has not done so when the wait ends; an
\* Interface row that is gone counts as a wait that timed out.
ConfigureOFPort(h) ==
    /\ pc[h] = "add_ofport"
    /\ \E assigned \in BOOLEAN :
         LET present == \E x \in ovsPorts : x.UUID = fr[h].uuid
             q == CHOOSE x \in ovsPorts : x.UUID = fr[h].uuid
             n == IF assigned THEN OFPortOf(q.UUID) ELSE q.OFPort
         IN /\ assigned => present
            /\ ovsPorts' = IF present
                             THEN (ovsPorts \ {q}) \cup {[q EXCEPT !.OFPort = n]}
                             ELSE ovsPorts
            /\ \E commit \in OFPortCommits(assigned) :
                 LET res == GetOFPort(commit, IF present THEN n ELSE 0)
                 IN /\ fr' = [fr EXCEPT ![h].ofport = res.ofport,
                                        ![h].ofwait = commit.msg,
                                        ![h].steps = IF res.error.err THEN @
                                                     ELSE Append(@, "ofport")]
                    /\ pc' = [pc EXCEPT ![h] = AfterGetOFPort(res)]
                    /\ resp' = [resp EXCEPT ![h] = IF res.error.err
                                                    THEN CONFIG_INTERFACE_FAILURE
                                                    ELSE resp[h]]
    /\ UNCHANGED <<busyContainerIDs, waiting, req, ipamAlloc, veths,
                   ifaceStore, flows, svars>>

\* configureInterface, step 4: ifaceStore.AddInterface(record).
ConfigureStore(h) ==
    /\ pc[h] = "add_store"
    /\ ifaceStore' = AddInterface(ifaceStore, RecordOf(h))
    /\ pc' = [pc EXCEPT ![h] = "add_flows"]
    /\ fr' = [fr EXCEPT ![h].steps = Append(@, "store")]
    /\ UNCHANGED <<busyContainerIDs, waiting, req, resp, ipamAlloc, veths,
                   ovsPorts, flows, svars>>

\* configureInterface, step 5: ofClient.InstallPodFlows; then CmdAdd marks
\* success and returns the CNI result.
ConfigureFlows(h) ==
    /\ pc[h] = "add_flows"
    /\ \E ok \in BOOLEAN :
         IF ok THEN /\ flows' = Put(flows, RecordOf(h).IfaceName, PodFlows(RecordOf(h)))
                    /\ Fail(h, OK)
                    /\ fr' = [fr EXCEPT ![h].steps = Append(@, "flows")]
               ELSE /\ flows' = flows
                    /\ Fail(h, CONFIG_INTERFACE_FAILURE)
                    /\ fr' = fr
    /\ UNCHANGED <<busyContainerIDs, waiting, req, ipamAlloc, veths,
                   ovsPorts, ifaceStore, svars>>

\* CmdAdd's deferred calls run in reverse order of their defer statements:
\* unlockContainer first, then the rollback closure, which calls CmdDel on
\* the same request when success is false.
AfterAddUnlock(success) == IF success THEN "idle" ELSE "del_lock"

CmdAddUnlock(h) ==
    /\ pc[h] = "add_unlock"
    /\ busyContainerIDs' = BusyAfterUnlock(busyContainerIDs, req[h].cid)
    /\ waiting' = WaitingAfterBroadcast(waiting)
    /\ pc' = [pc EXCEPT ![h] = AfterAddUnlock(resp[h] = OK)]
    /\ fr' = [fr EXCEPT ![h] = IF resp[h] = OK THEN NoFrame
                                ELSE [NoFrame EXCEPT !.rollback = TRUE,
                                                     !.addResp = resp[h]]]
    /\ req' = [req EXCEPT ![h] = IF resp[h] = OK THEN NoReq ELSE req[h]]
    /\ resp' = [resp EXCEPT ![h] = NoResp]
    /\ UNCHANGED <<ipamAlloc, veths, ovsPorts, ifaceStore, flows, svars>>

\* ==================================================================== CmdDel
CmdDelStart(h) == Receive(h, "DEL", "del_lock")

\* A CmdDel that goes on to removeInterfaces whatever ExecIPAMDelete returned.
AfterIPAMDelete_goOn(ok) == "del_remove"

\* What CmdDel does after ipam.ExecIPAMDelete returned.
AfterIPAMDelete(ok) == IF ok THEN "del_remove" ELSE "del_unlock"

\* ipam.ExecIPAMDelete
CmdDelIPAM(h) ==
    /\ pc[h] = "del_ipam"
    /\ \E ok \in BOOLEAN :
         /\ ipamAlloc' = IF ok THEN ipamAlloc \ {req[h].cid} ELSE ipamAlloc
         /\ resp' = [resp EXCEPT ![h] = IF ok THEN resp[h] ELSE IPAM_FAILURE]
         /\ pc' = [pc EXCEPT ![h] = AfterIPAMDelete(ok)]
    /\ fr' = [fr EXCEPT ![h].ipamDeletes = @ + 1]
    /\ UNCHANGED <<busyContainerIDs, waiting, req, veths, ovsPorts,
                   ifaceStore, flows, svars>>

\* removeInterfaces for the request's pod
CmdDelRemove(h) ==
    /\ pc[h] = "del_remove"
    /\ \E flowsOK, portOK, vethOK, err \in BOOLEAN :
         /\ removeInterfaces(req[h].pod, TRUE, flowsOK, portOK, vethOK, err)
         /\ resp' = [resp EXCEPT ![h] = IF err THEN CONFIG_INTERFACE_FAILURE ELSE OK]
    /\ pc' = [pc EXCEPT ![h] = "del_unlock"]
    /\ fr' = [fr EXCEPT ![h].deleted =
                 IF HasContainerInterface(ifaceStore, req[h].pod)
                 THEN GetContainerInterface(ifaceStore, req[h].pod).PortUUID
                 ELSE 0]
    /\ UNCHANGED <<busyContainerIDs, waiting, req, ipamAlloc, svars>>

\* removeInterfaces followed call by call.  First the calls that leave the
\* agent: UninstallPodFlows, OVSBridge.DeletePort with the UUID of the record
\* found for the pod, deletion of the host veth.
CmdDelDetach(h) ==
    /\ pc[h] = "del_remove"
    /\ LET p == req[h].pod
           name == GenerateContainerInterfaceName(p)
           found == HasContainerInterface(ifaceStore, p)
           r == GetContainerInterface(ifaceStore, p)
           hasVeth == name \in DOMAIN veths
       IN \E flowsOK, portOK, vethOK \in BOOLEAN :
            LET err == (found /\ (~flowsOK \/ ~portOK)) \/ (hasVeth /\ ~vethOK)
            IN /\ veths' = IF hasVeth /\ vethOK THEN Drop(veths, name) ELSE veths
               /\ flows' = IF found /\ flowsOK THEN Drop(flows, r.IfaceName) ELSE flows
               /\ ovsPorts' = IF found /\ portOK
                                THEN {q \in ovsPorts : q.UUID # r.PortUUID}
                                ELSE ovsPorts
               /\ resp' = [resp EXCEPT ![h] = IF err THEN CONFIG_INTERFACE_FAILURE ELSE OK]
               /\ pc' = [pc EXCEPT ![h] = IF found THEN "del_entry" ELSE "del_unlock"]
               /\ fr' = [fr EXCEPT ![h].deleted = IF found THEN r.PortUUID ELSE 0]
    /\ UNCHANGED <<busyContainerIDs, waiting, req, ipamAlloc, ifaceStore, svars>>

\* Then the store: ifaceStore.DeleteInterface of the pod's interface name.
CmdDelEntry(h) ==
    /\ pc[h] = "del_entry"
    /\ ifaceStore' = DeleteInterface(ifaceStore, GenerateContainerInterfaceName(req[h].pod))
    /\ pc' = [pc EXCEPT ![h] = "del_unlock"]
    /\ UNCHANGED <<busyContainerIDs, waiting, req, resp, fr, ipamAlloc, veths,
                   ovsPorts, flows, svars>>

\* A CmdAdd that answers with what its rollback returned.
AddResponse_fromRollback(addResp, delResp) == delResp

\* What a failed CmdAdd returns once its deferred rollback has run: the
\* closure drops CmdDel's response and only logs its error.
AddResponse(addResp, delResp) == addResp

\* The response the call of handler h returns when it leaves del_unlock.
Returned(h) ==
    IF fr[h].rollback THEN AddResponse(fr[h].addResp, resp[h]) ELSE resp[h]

\* deferred unlockContainer of CmdDel; a rollback's CmdDel returns into
\* CmdAdd's deferred closure, which logs its error and keeps CmdAdd's response.
CmdDelUnlock(h) ==
    /\ pc[h] = "del_unlock"
    /\ busyContainerIDs' = BusyAfterUnlock(busyContainerIDs, req[h].cid)
    /\ waiting' = WaitingAfterBroadcast(waiting)
    /\ pc' = [pc EXCEPT ![h] = "idle"]
    /\ req' = [req EXCEPT ![h] = NoReq]
    /\ resp' = [resp EXCEPT ![h] = NoResp]
    /\ fr' = [fr EXCEPT ![h] = NoFrame]
    /\ UNCHANGED <<ipamAlloc, veths, ovsPorts, ifaceStore, flows, svars>>

\* ================================================================== CmdCheck
CmdCheckStart(h) == Receive(h, "CHECK", "chk_lock")

\* ipam.ExecIPAMCheck
CmdCheckIPAM(h) ==
    /\ pc[h] = "chk_ipam"
    /\ \E ok \in BOOLEAN :
         IF ~ok THEN Fail(h, IPAM_FAILURE)
         ELSE IF GreaterThanOrEqualTo(req[h].version, <<0, 4, 0>>)
              THEN /\ pc' = [pc EXCEPT ![h] = "chk_prev"]
                   /\ resp' = resp
              ELSE Fail(h, OK)
    /\ UNCHANGED <<busyContainerIDs, waiting, req, fr, ipamAlloc, veths, ovsPorts,
                   ifaceStore, flows, svars>>

\* The test of parsePrevResult's error inverted.
parsePrevResultFromRequest_inverted(prev) ==
    IF prev.kind = "none" THEN UNSUPPORTED_FIELD
    ELSE IF prev.kind # "bad" THEN DECODING_FAILURE
    ELSE OK

\* parsePrevResultFromRequest: the response it returns, OK for none.
parsePrevResultFromRequest(prev) ==
    IF prev.kind = "none" THEN UNSUPPORTED_FIELD
    ELSE IF prev.kind = "bad" THEN DECODING_FAILURE
    ELSE OK

\* checkInterfaces: the container interface and the host veth exist and
\* agree with the store's record for the container.
checkInterfaces(store, links, c, name, prev) ==
    /\ name \in DOMAIN links
    /\ links[name] = prev.mac
    /\ name \in DOMAIN store
    /\ store[name].ID = c
    /\ store[name].MAC = prev.mac

\* validatePrevResult returns (response, error); the error is nil on every
\* return path.
validatePrevResult(r, store, links) ==
    [response |->
        IF ~r.prev.cont \/ ~r.prev.host THEN INVALID_NETWORK_CONFIG
        ELSE IF ~checkInterfaces(store, links, r.cid,
                                 GenerateContainerInterfaceName(r.pod), r.prev)
             THEN CHECK_INTERFACE_FAILURE
             ELSE OK,
     err |-> FALSE]

\* CmdCheck returns validatePrevResult's response only if its error is set.
CheckResponse(v) == IF v.err THEN v.response ELSE OK

CmdCheckPrev(h) ==
    /\ pc[h] = "chk_prev"
    /\ IF parsePrevResultFromRequest(req[h].prev) # OK
       THEN Fail(h, parsePrevResultFromRequest(req[h].prev))
       ELSE Fail(h, CheckResponse(validatePrevResult(req[h], ifaceStore, veths)))
    /\ UNCHANGED <<busyContainerIDs, waiting, req, fr, ipamAlloc, veths, ovsPorts,
                   ifaceStore, flows, svars>>

CmdCheckUnlock(h) ==
    /\ pc[h] = "chk_unlock"
    /\ busyContainerIDs' = BusyAfterUnlock(busyContainerIDs, req[h].cid)
    /\ waiting' = WaitingAfterBroadcast(waiting)
    /\ pc' = [pc EXCEPT ![h] = "idle"]
    /\ req' = [req EXCEPT ![h] = NoReq]
    /\ resp' = [resp EXCEPT ![h] = NoResp]
    /\ UNCHANGED <<fr, ipamAlloc, veths, ovsPorts, ifaceStore, flows, svars>>

\* ====================================================================== Next
\* Agent startup: store initialization and reconciliation, up to the point
\* where the server starts.
NextStartup ==
    \/ StoreInitialize
    \/ ReconcileList
    \/ ReconcilePod
    \/ ReconcilePodsDone
    \/ ReconcileIface
    \/ ReconcileDone
    \/ Run

SpecStartup == Init /\ [][NextStartup]_vars

\* Startup followed by serving.
Next ==
    \/ NextStartup
    \/ \E h \in Handlers : CmdAddStart(h)
    \/ \E h \in Handlers : CmdDelStart(h)
    \/ \E h \in Handlers : CmdCheckStart(h)
    \/ \E h \in Handlers : lockContainer(h)
    \/ \E h \in Handlers : CmdAddIPAM(h)
    \/ \E h \in Handlers : ConfigureVeth(h)
    \/ \E h \in Handlers : ConfigurePort(h)
    \/ \E h \in Handlers : ConfigureOFPort(h)
    \/ \E h \in Handlers : ConfigureStore(h)
    \/ \E h \in Handlers : ConfigureFlows(h)
    \/ \E h \in Handlers : CmdAddUnlock(h)
    \/ \E h \in Handlers : CmdDelIPAM(h)
    \/ \E h \in Handlers : CmdDelRemove(h)
    \/ \E h \in Handlers : CmdDelUnlock(h)
    \/ \E h \in Handlers : CmdCheckIPAM(h)
    \/ \E h \in Handlers : CmdCheckPrev(h)
    \/ \E h \in Handlers : CmdCheckUnlock(h)

Spec == Init /\ [][Next]_vars

\* --------------------------------------------------------- serving only
\* The agent of a node without pods after its reconciliation: the bridge
\* holds the gateway port alone and the server has started.
InitServing ==
    /\ busyContainerIDs = {}
    /\ waiting = {}
    /\ pc = [h \in Handlers |-> "idle"]
    /\ req = [h \in Handlers |-> NoReq]
    /\ resp = [h \in Handlers |-> NoResp]
    /\ fr = [h \in Handlers |-> NoFrame]
    /\ ovsPorts = {GatewayPort}
    /\ ipamAlloc = {}
    /\ veths = EmptyMap
    /\ ifaceStore = EmptyMap
    /\ flows = EmptyMap
    /\ podList = {}
    /\ rcpc = "serving"
    /\ served = 0
    /\ rc = NoRc
    /\ ClientReady

NextServing ==
    \/ \E h \in Handlers : CmdAddStart(h)
    \/ \E h \in Handlers : CmdDelStart(h)
    \/ \E h \in Handlers : CmdCheckStart(h)
    \/ \E h \in Handlers : lockContainer(h)
    \/ \E h \in Handlers : CmdAddIPAM(h)
    \/ \E h \in Handlers : ConfigureVeth(h)
    \/ \E h \in Handlers : ConfigurePort(h)
    \/ \E h \in Handlers : ConfigureOFPort(h)
    \/ \E h \in Handlers : ConfigureStore(h)
    \/ \E h \in Handlers : ConfigureFlows(h)
    \/ \E h \in Handlers : CmdAddUnlock(h)
    \/ \E h \in Handlers : CmdDelIPAM(h)
    \/ \E h \in Handlers : CmdDelRemove(h)
    \/ \E h \in Handlers : CmdDelUnlock(h)
    \/ \E h \in Handlers : CmdCheckIPAM(h)
    \/ \E h \in Handlers : CmdCheckPrev(h)
    \/ \E h \in Handlers : CmdCheckUnlock(h)

SpecServing == InitServing /\ [][NextServing]_vars

\* -------------------------------------------------------- arbitrator only
\* The server under an unbounded stream of CHECK requests: the handlers do
\* nothing but contend for container ids.
CheckArrive(h) ==
    /\ Accept(h, "CHECK", "chk_lock", Requests)
    /\ UNCHANGED served

NextLock ==
    \/ \E h \in Handlers : CheckArrive(h)
    \/ \E h \in Handlers : lockContainer(h)
    \/ \E h \in Handlers : CmdCheckIPAM(h)
    \/ \E h \in Handlers : CmdCheckPrev(h)
    \/ \E h \in Handlers : CmdCheckUnlock(h)

SpecLock == InitServing /\ [][NextLock]_vars

\* Every goroutine that can run eventually runs: a handler that is not
\* blocked in cond.Wait() takes its next step.  Nothing is assumed about
\* when requests arrive.
FairHandlers ==
    \A h \in Handlers :
        /\ WF_vars(lockContainer(h))
        /\ WF_vars(CmdCheckIPAM(h))
        /\ WF_vars(CmdCheckPrev(h))
        /\ WF_vars(CmdCheckUnlock(h))

SpecLockFair == InitServing /\ [][NextLock]_vars /\ FairHandlers

\* ------------------------------------------------------ startup and serving
\* The agent from boot on, serving CHECK requests for one container once
\* the server runs.
FirstRequests ==
    {Request("CHECK", 1, TRUE, ver, TRUE, NoPrev) : ver \in {<<0, 3, 1>>, <<0, 4, 0>>}}
AgentArrive(h) ==
    /\ Accept(h, "CHECK", "chk_lock", FirstRequests)
    /\ UNCHANGED served

NextAgent ==
    \/ NextStartup
    \/ \E h \in Handlers : AgentArrive(h)
    \/ \E h \in Handlers : lockContainer(h)
    \/ \E h \in Handlers : CmdCheckIPAM(h)
    \/ \E h \in Handlers : CmdCheckPrev(h)
    \/ \E h \in Handlers : CmdCheckUnlock(h)

SpecAgent == Init /\ [][NextAgent]_vars

\* ----------------------------------------------------------- IPAM result
\* updateResultIfaceConfig(result, defaultV4Gateway).  An IP is a number of
\* IPBits bits and a network [ip, bits] an IP with its prefix length; a nil
\* gateway or interface pointer is the empty set; result.Routes is nil or a
\* list of routes.
IPs == 0..(2 ^ IPBits - 1)
\* ipn.IP.Mask(ipn.Mask)
Mask(ipn) == ipn.ip - (ipn.ip % (2 ^ (IPBits - ipn.bits)))
\* ip.NextIP
NextIP(ip) == ip + 1
defaultRouteDst == [ip |-> 0, bits |-> 0]

\* The body of the loop over result.IPs.
updateIPConfig(ipc) ==
    [ipc EXCEPT !.interface = {1},
                !.gateway = IF ipc.gateway = {} THEN {NextIP(Mask(ipc.address))}
                            ELSE ipc.gateway]

\* A search that looks at the first route only.
foundDefaultRoute_first(routes) ==
    /\ ~routes.nil
    /\ Len(routes.list) > 0
    /\ routes.list[1].dst = defaultRouteDst
foundDefaultRoute(routes) ==
    /\ ~routes.nil
    /\ \E i \in DOMAIN routes.list : routes.list[i].dst = defaultRouteDst

updateResultIfaceConfig(result, defaultV4Gateway) ==
    [IPs |-> [i \in DOMAIN result.IPs |-> updateIPConfig(result.IPs[i])],
     Routes |->
        [nil |-> FALSE,
         list |-> IF foundDefaultRoute(result.Routes) THEN result.Routes.list
                  ELSE Append(result.Routes.list,
                              [dst |-> defaultRouteDst, gw |-> defaultV4Gateway])]]

\* Results an IPAM driver may return: up to MaxIPs addresses, up to
\* MaxRoutes routes or no route list at all.
SeqsUpTo(S, n) == UNION {[1..k -> S] : k \in 0..n}
IPConfigs ==
    [address : [ip : {5, 6}, bits : {1, IPBits}], gateway : {{}, {1}},
     interface : {{}, {0}}]
RouteLists ==
    SeqsUpTo([dst : {defaultRouteDst, [ip |-> 0, bits |-> 1]}, gw : {1, 2}], MaxRoutes)
IPAMResults ==
    [IPs : SeqsUpTo(IPConfigs, MaxIPs),
     Routes : {[nil |-> TRUE, list |-> <<>>]} \cup [nil : {FALSE}, list : RouteLists]]

nothers == <<busyContainerIDs, waiting, pc, req, resp, fr, ipamAlloc, veths, ovsPorts,
             ifaceStore, flows, podList, rcpc, served, rc, bridgeRow, br, call, dial>>

\* CmdAdd normalizes the result of ExecIPAMAdd.
Normalize ==
    /\ fn.op = "none"
    /\ \E result \in IPAMResults, gw \in {1, 3} :
         fn' = [op |-> "updateResultIfaceConfig", arg |-> result, gw |-> gw,
                ret |-> updateResultIfaceConfig(result, gw)]
    /\ UNCHANGED nothers

\* The step applied to its own result.
NormalizeAgain ==
    /\ fn.op = "updateResultIfaceConfig"
    /\ fn' = [op |-> "again", arg |-> fn.ret, gw |-> fn.gw,
              ret |-> updateResultIfaceConfig(fn.ret, fn.gw)]
    /\ UNCHANGED nothers

NextNormalize ==
    \/ Normalize
    \/ NormalizeAgain

SpecNormalize == InitServing /\ [][NextNormalize]_vars

\* ------------------------------------------------------ network configuration
\* loadNetworkConfig(request).  A JSON object is a record of its keys, each
\* absent ({}) or present with a value ({v}); vlan stands for the keys the
\* NetworkConfig struct does not declare.
Servers ==
    {[podCIDR |-> "10.1.0.0/24", gateway |-> "10.1.0.1", defaultMTU |-> 1450],
     [podCIDR |-> "10.1.1.0/24", gateway |-> "10.1.1.1", defaultMTU |-> 1500]}
NetworkConfigurations ==
    [cniVersion : {{"0.4.0"}}, name : {{}, {"antrea"}}, mtu : {{}, {0}, {1400}},
     dns : {{}, {"10.96.0.10"}}, vlan : {{}, {"100"}},
     ipam : [type : {{"host-local"}}, subnet : {{}, {"10.9.0.0/24"}},
             gateway : {{}, {"10.9.0.1"}}]]

\* The value of a key, the zero value of its type when the key is absent.
ValueOr(field, zero) == IF field = {} THEN zero ELSE CHOOSE v \in field : TRUE
\* A key tagged omitempty is left out when its value is the zero value.
OmitEmpty(v, zero) == IF v = zero THEN {} ELSE {v}

\* json.Unmarshal into NetworkConfig: declared keys only.
UnmarshalNetworkConfig(conf) ==
    [CNIVersion |-> ValueOr(conf.cniVersion, ""),
     Name |-> ValueOr(conf.name, ""),
     MTU |-> ValueOr(conf.mtu, 0),
     DNS |-> ValueOr(conf.dns, ""),
     IPAM |-> [Type |-> ValueOr(conf.ipam.type, ""),
               Subnet |-> ValueOr(conf.ipam.subnet, ""),
               Gateway |-> ValueOr(conf.ipam.gateway, "")]]

\* json.Marshal(cniConfig.NetworkConfig)
MarshalNetworkConfig(cfg) ==
    [cniVersion |-> OmitEmpty(cfg.CNIVersion, ""),
     name |-> OmitEmpty(cfg.Name, ""),
     mtu |-> OmitEmpty(cfg.MTU, 0),
     dns |-> {cfg.DNS},
     vlan |-> {},
     ipam |-> [type |-> OmitEmpty(cfg.IPAM.Type, ""),
               subnet |-> OmitEmpty(cfg.IPAM.Subnet, ""),
               gateway |-> OmitEmpty(cfg.IPAM.Gateway, "")]]

\* A rewrite that fills in only what the caller left out.
updateLocalIPAMSubnet_ifMissing(cfg, s) ==
    [cfg EXCEPT !.IPAM.Gateway = IF @ = "" THEN s.gateway ELSE @,
                !.IPAM.Subnet = IF @ = "" THEN s.podCIDR ELSE @]
updateLocalIPAMSubnet(cfg, s) ==
    [cfg EXCEPT !.IPAM.Gateway = s.gateway, !.IPAM.Subnet = s.podCIDR]

\* What loadNetworkConfig returns: the error, the configuration handed on to
\* IPAM (CniCmdArgs.NetworkConfiguration) and the MTU in use.
loadNetworkConfig(decodable, conf, s) ==
    IF ~decodable THEN [err |-> TRUE, NetworkConfiguration |-> conf, MTU |-> 0]
    ELSE LET cfg == updateLocalIPAMSubnet(UnmarshalNetworkConfig(conf), s)
         IN [err |-> FALSE,
             NetworkConfiguration |-> MarshalNetworkConfig(cfg),
             MTU |-> IF cfg.MTU = 0 THEN s.defaultMTU ELSE cfg.MTU]

\* checkRequestMessage loads the configuration of a request of any verb.
LoadNetworkConfig ==
    /\ \E verb \in Verbs, decodable \in BOOLEAN, conf \in NetworkConfigurations,
          s \in Servers :
         fn' = [op |-> "loadNetworkConfig", verb |-> verb, decodable |-> decodable,
                arg |-> conf, server |-> s, ret |-> loadNetworkConfig(decodable, conf, s)]
    /\ UNCHANGED nothers

NextConfig ==
    \/ LoadNetworkConfig

SpecConfig == InitServing /\ [][NextConfig]_vars

\* --------------------------------------------------------------- check only
\* CHECK requests of every supported version with every kind of prevResult,
\* on a serving agent.
CheckRequests ==
    {Request("CHECK", c, TRUE, supportedCNIVersions[i], TRUE, p) :
        c \in ContainerIDs, i \in DOMAIN supportedCNIVersions, p \in PrevResults}

VersionedCheckArrive(h) ==
    /\ Accept(h, "CHECK", "chk_lock", CheckRequests)
    /\ UNCHANGED served

NextCheck ==
    \/ \E h \in Handlers : VersionedCheckArrive(h)
    \/ \E h \in Handlers : lockContainer(h)
    \/ \E h \in Handlers : CmdCheckIPAM(h)
    \/ \E h \in Handlers : CmdCheckPrev(h)
    \/ \E h \in Handlers : CmdCheckUnlock(h)

SpecCheck == InitServing /\ [][NextCheck]_vars

\* ------------------------------------------------------- attach and detach
\* The agent from boot on, one pod of the node still listed and every port
\* left on the bridge with its ofport assigned, then serving well-formed ADD
\* and DEL requests for the containers of that pod; removeInterfaces is
\* followed call by call.
AttachRequests ==
    {Request(v, c, TRUE, <<0, 4, 0>>, TRUE, NoPrev) :
        v \in {"ADD", "DEL"}, c \in {x \in ContainerIDs : PodOf(x) = 1}}

AttachArrive(h, verb, lockPc) ==
    /\ served < MaxRequests
    /\ served' = served + 1
    /\ Accept(h, verb, lockPc, AttachRequests)

NextAttach ==
    \/ NextStartup
    \/ \E h \in Handlers : AttachArrive(h, "ADD", "add_lock")
    \/ \E h \in Handlers : AttachArrive(h, "DEL", "del_lock")
    \/ \E h \in Handlers : lockContainer(h)
    \/ \E h \in Handlers : CmdAddIPAM(h)
    \/ \E h \in Handlers : ConfigureVeth(h)
    \/ \E h \in Handlers : ConfigurePort(h)
    \/ \E h \in Handlers : ConfigureOFPort(h)
    \/ \E h \in Handlers : ConfigureStore(h)
    \/ \E h \in Handlers : ConfigureFlows(h)
    \/ \E h \in Handlers : CmdAddUnlock(h)
    \/ \E h \in Handlers : CmdDelIPAM(h)
    \/ \E h \in Handlers : CmdDelDetach(h)
    \/ \E h \in Handlers : CmdDelEntry(h)
    \/ \E h \in Handlers : CmdDelUnlock(h)

InitAttach ==
    /\ Init
    /\ podList = {[pod |-> 1, hostNetwork |-> FALSE]}
    /\ \A q \in ovsPorts : q.OFPort # 0

SpecAttach == InitAttach /\ [][NextAttach]_vars

\* ------------------------------------------------------ ADD and its rollback
\* A serving agent under an unbounded stream of well-formed ADD and DEL
\* requests for one container.  Every handler goroutine that can run
\* eventually runs; nothing is assumed about when requests arrive.
RollbackRequests ==
    {Request(v, 1, TRUE, <<0, 4, 0>>, TRUE, NoPrev) : v \in {"ADD", "DEL"}}

RollbackArrive(h, verb, lockPc) ==
    /\ Accept(h, verb, lockPc, RollbackRequests)
    /\ UNCHANGED served

NextRollback ==
    \/ \E h \in Handlers : RollbackArrive(h, "ADD", "add_lock")
    \/ \E h \in Handlers : RollbackArrive(h, "DEL", "del_lock")
    \/ \E h \in Handlers : lockContainer(h)
    \/ \E h \in Handlers : CmdAddIPAM(h)
    \/ \E h \in Handlers : ConfigureVeth(h)
    \/ \E h \in Handlers : ConfigurePort(h)
    \/ \E h \in Handlers : ConfigureOFPort(h)
    \/ \E h \in Handlers : ConfigureStore(h)
    \/ \E h \in Handlers : ConfigureFlows(h)
    \/ \E h \in Handlers : CmdAddUnlock(h)
    \/ \E h \in Handlers : CmdDelIPAM(h)
    \/ \E h \in Handlers : CmdDelRemove(h)
    \/ \E h \in Handlers : CmdDelUnlock(h)

FairAddDel ==
    \A h \in Handlers :
        /\ WF_vars(lockContainer(h))
        /\ WF_vars(CmdAddIPAM(h))
        /\ WF_vars(ConfigureVeth(h))
        /\ WF_vars(ConfigurePort(h))
        /\ WF_vars(ConfigureOFPort(h))
        /\ WF_vars(ConfigureStore(h))
        /\ WF_vars(ConfigureFlows(h))
        /\ WF_vars(CmdAddUnlock(h))
        /\ WF_vars(CmdDelIPAM(h))
        /\ WF_vars(CmdDelRemove(h))
        /\ WF_vars(CmdDelUnlock(h))

SpecRollback == InitServing /\ [][NextRollback]_vars /\ FairAddDel

\* -------------------------------------------------------------- store only
\* The interface store driven call by call, as its unit test drives it:
\* Initialize at any time, AddInterface and DeleteInterface in between, over
\* a bridge left by an earlier run.
StoreRecords ==
    {ContainerInterface(c, PodOf(c), GenerateContainerInterfaceName(PodOf(c)),
                        m, IPOf(c), u, IF assigned THEN OFPortOf(u) ELSE 0) :
        c \in ContainerIDs, m \in MACs, u \in UUIDs, assigned \in BOOLEAN}

InitializeCall == InterfaceStoreInitialize

AddInterfaceCall ==
    /\ \E r \in StoreRecords : ifaceStore' = AddInterface(ifaceStore, r)
    /\ UNCHANGED <<hvars, ipamAlloc, veths, ovsPorts, flows, podList, rcpc, rc>>

DeleteInterfaceCall ==
    /\ \E n \in {GenerateContainerInterfaceName(p) : p \in Pods} :
         ifaceStore' = DeleteInterface(ifaceStore, n)
    /\ UNCHANGED <<hvars, ipamAlloc, veths, ovsPorts, flows, podList, rcpc, rc>>

NextStore ==
    \/ InitializeCall
    \/ AddInterfaceCall
    \/ DeleteInterfaceCall

InitStore ==
    /\ Init
    /\ podList = {}

SpecStore == InitStore /\ [][NextStore]_vars

\* --------------------------------------------------------------- dial only
\* NewOVSDBConnectionUDS(address): the caller dials while a goroutine logs
\* "Not connected yet" with exponential backoff.  Time is counted in
\* seconds; msgs holds the time of each message.
defaultUDSAddress == "/run/openvswitch/db.sock"
maxBackoffTime == 8
UDSAddress(address) == IF address = "" THEN defaultUDSAddress ELSE address

\* backoff *= 2; if backoff > maxBackoffTime { backoff = maxBackoffTime }
NextBackoff_uncapped(backoff) == backoff * 2
NextBackoff(backoff) ==
    IF backoff * 2 > maxBackoffTime THEN maxBackoffTime ELSE backoff * 2

dothers == <<busyContainerIDs, waiting, pc, req, resp, fr, ipamAlloc, veths, ovsPorts,
             ifaceStore, flows, podList, rcpc, served, rc, bridgeRow, br, call, fn>>

\* The goroutine's timer is due: time.After(backoff) has fired.
TimerDue == dial.logger = "select" /\ dial.now = dial.deadline

\* One second passes; a due timer fires before time goes on.
Tick ==
    /\ dial.now < DialMaxTime
    /\ ~TimerDue
    /\ dial' = [dial EXCEPT !.now = @ + 1]
    /\ UNCHANGED dothers

\* The OVSDB server starts to listen on the socket.
OVSDBUp ==
    /\ ~dial.reachable
    /\ dial' = [dial EXCEPT !.reachable = TRUE]
    /\ UNCHANGED dothers

\* db := ovsdb.Dial(...): returns once the server is reachable.
DialReturns ==
    /\ dial.pc = "dialing"
    /\ dial.reachable
    /\ dial' = [dial EXCEPT !.pc = "send"]
    /\ UNCHANGED dothers

\* success <- true, on a channel of capacity 1.
SendSuccess ==
    /\ dial.pc = "send"
    /\ dial.success < 1
    /\ dial' = [dial EXCEPT !.pc = "return", !.success = @ + 1]
    /\ UNCHANGED dothers

\* return db, nil
ReturnDB ==
    /\ dial.pc = "return"
    /\ dial' = [dial EXCEPT !.pc = "returned", !.error = NoError]
    /\ UNCHANGED dothers

\* case <-success: return
LoggerReceive ==
    /\ dial.logger = "select"
    /\ dial.success > 0
    /\ dial' = [dial EXCEPT !.success = @ - 1, !.logger = "done"]
    /\ UNCHANGED dothers

\* case <-time.After(backoff): double the backoff, log, select again.
LoggerTimer ==
    /\ TimerDue
    /\ LET b == NextBackoff(dial.backoff)
       IN dial' = [dial EXCEPT !.backoff = b,
                               !.msgs = Append(@, dial.now),
                               !.deadline = dial.now + b]
    /\ UNCHANGED dothers

NextDial ==
    \/ Tick
    \/ OVSDBUp
    \/ DialReturns
    \/ SendSuccess
    \/ ReturnDB
    \/ LoggerReceive
    \/ LoggerTimer

\* The goroutine has been started and the caller is in ovsdb.Dial; the
\* server may already listen.
InitDial ==
    /\ busyContainerIDs = {}
    /\ waiting = {}
    /\ pc = [h \in Handlers |-> "idle"]
    /\ req = [h \in Handlers |-> NoReq]
    /\ resp = [h \in Handlers |-> NoResp]
    /\ fr = [h \in Handlers |-> NoFrame]
    /\ bridgeRow = BridgeUUID
    /\ ovsPorts = {GatewayPort}
    /\ ipamAlloc = {}
    /\ veths = EmptyMap
    /\ ifaceStore = EmptyMap
    /\ flows = EmptyMap
    /\ podList = {}
    /\ rcpc = "boot"
    /\ served = 0
    /\ rc = NoRc
    /\ br = [uuid |-> NoUUID]
    /\ call = NoCall
    /\ fn = NoFn
    /\ \E a \in {"", "/tmp/db.sock"}, up \in BOOLEAN :
         dial = [pc |-> "dialing", address |-> UDSAddress(a), reachable |-> up,
                 success |-> 0, logger |-> "select", backoff |-> 1, deadline |-> 1,
                 now |-> 0, msgs |-> <<>>, error |-> NoError]

\* The caller and the goroutine are scheduled; the select takes a ready
\* case.  Nothing makes the server come up.
SpecDial ==
    /\ InitDial
    /\ [][NextDial]_vars
    /\ WF_vars(DialReturns)
    /\ WF_vars(SendSuccess)
    /\ WF_vars(ReturnDB)
    /\ WF_vars(LoggerReceive)

\* ------------------------------------------------------------- client only
\* The OVSDB client driven method by method over a bridge that exists or
\* not: every commit may succeed or fail.  A panic ends the process.
Running == ~call.ret.panic

\* A method has been called: its return is recorded and br.uuid updated.
Called(op, commits, args, ret) ==
    /\ call' = [op |-> op, commits |-> commits, args |-> args, ret |-> ret]
    /\ br' = [br EXCEPT !.uuid = ret.uuid]

cothers == <<busyContainerIDs, waiting, pc, req, resp, fr, ipamAlloc, veths,
             ifaceStore, flows, podList, rcpc, served, rc, dial, fn>>

CallCreate ==
    /\ Running
    /\ \E c1, c2 \in Commits :
         LET made == IF c1.err THEN <<c1>> ELSE <<c1, c2>>
             ret == Create(c1, c2, br.uuid, bridgeRow)
             created == ~c1.err /\ ~c2.err /\ ~HasBridgeRow(bridgeRow)
         IN /\ Called("Create", made, NoArgs, ret)
            /\ bridgeRow' = IF created THEN BridgeUUID ELSE bridgeRow
    /\ UNCHANGED <<ovsPorts, cothers>>

CallDelete ==
    /\ Running
    /\ \E c \in Commits :
         LET gone == ~c.err /\ br.uuid = bridgeRow
         IN /\ Called("Delete", <<c>>, NoArgs, Delete(c, br.uuid))
            /\ bridgeRow' = IF gone THEN NoUUID ELSE bridgeRow
            /\ ovsPorts' = IF gone THEN {} ELSE ovsPorts
    /\ UNCHANGED cothers

CallGetExternalIDs ==
    /\ Running
    /\ \E c \in Commits :
         Called("GetExternalIDs", <<c>>, NoArgs, GetExternalIDs(c, br.uuid, bridgeRow))
    /\ UNCHANGED <<bridgeRow, ovsPorts, cothers>>

CallSetExternalIDs ==
    /\ Running
    /\ \E c \in Commits :
         Called("SetExternalIDs", <<c>>, NoArgs, SetExternalIDs(c, br.uuid))
    /\ UNCHANGED <<bridgeRow, ovsPorts, cothers>>

CallGetPortUUIDList ==
    /\ Running
    /\ \E c \in Commits :
         Called("GetPortUUIDList", <<c>>, NoArgs,
                GetPortUUIDList(c, br.uuid, bridgeRow, ovsPorts))
    /\ UNCHANGED <<bridgeRow, ovsPorts, cothers>>

CallDeletePorts ==
    /\ Running
    /\ \E c \in Commits, U \in SUBSET UUIDs :
         /\ Called("DeletePorts", <<c>>, NoArgs, DeletePorts(c, br.uuid))
         /\ ovsPorts' = IF c.err THEN ovsPorts ELSE {q \in ovsPorts : q.UUID \notin U}
    /\ UNCHANGED <<bridgeRow, cothers>>

CallDeletePort ==
    /\ Running
    /\ \E c \in Commits, u \in UUIDs :
         /\ Called("DeletePort", <<c>>, [NoArgs EXCEPT !.port = u], DeletePort(c, br.uuid))
         /\ ovsPorts' = IF c.err THEN ovsPorts ELSE {q \in ovsPorts : q.UUID # u}
    /\ UNCHANGED <<bridgeRow, cothers>>

\* CreatePort(name, ifDev, externalIDs): the insert is refused when the
\* bridge is missing, the name is taken or no UUID is left.
CallCreatePort ==
    /\ Running
    /\ \E c \in Commits, r \in StoreRecords :
         LET can == /\ HasBridgeRow(bridgeRow)
                    /\ FreeUUIDs # {}
                    /\ \A q \in ovsPorts : q.Name # r.IfaceName
             u == Min(FreeUUIDs)
         IN /\ ~c.err => can
            /\ Called("CreatePort", <<c>>, [NoArgs EXCEPT !.ifName = r.IfaceName],
                      createPort(c, br.uuid, IF c.err THEN <<>> ELSE createPortResults(u)))
            /\ ovsPorts' = IF c.err THEN ovsPorts
                             ELSE ovsPorts \cup
                                    {NewPortRow(u, r.IfaceName, BuildOVSPortExternalIDs(r))}
    /\ UNCHANGED <<bridgeRow, cothers>>

CallGetOFPort ==
    /\ Running
    /\ \E q \in ovsPorts, assigned \in BOOLEAN :
         \E c \in OFPortCommits(assigned) \cup (IF assigned THEN CommitErrors ELSE {}) :
            LET n == IF assigned THEN OFPortOf(q.UUID) ELSE q.OFPort
                res == GetOFPort(c, n)
            IN /\ n # 0 \/ c.err
               /\ Called("GetOFPort", <<c>>, [NoArgs EXCEPT !.ifName = q.Name],
                         MethodReturn(res.ofport, res.error, br.uuid))
               /\ ovsPorts' = (ovsPorts \ {q}) \cup {[q EXCEPT !.OFPort = n]}
    /\ UNCHANGED <<bridgeRow, cothers>>

CallGetPortData ==
    /\ Running
    /\ \E c \in Commits, u \in UUIDs,
          n \in {GenerateContainerInterfaceName(p) : p \in Pods} :
         Called("GetPortData", <<c>>, [port |-> u, ifName |-> n],
                GetPortData(c, br.uuid, ovsPorts, u, n))
    /\ UNCHANGED <<bridgeRow, ovsPorts, cothers>>

CallGetPortList ==
    /\ Running
    /\ \E c \in Commits :
         Called("GetPortList", <<c>>, NoArgs, GetPortList(c, br.uuid, bridgeRow, ovsPorts))
    /\ UNCHANGED <<bridgeRow, ovsPorts, cothers>>

CallSetInterfaceMTU ==
    /\ Running
    /\ \E c \in Commits, q \in ovsPorts :
         Called("SetInterfaceMTU", <<c>>, [NoArgs EXCEPT !.ifName = q.Name],
                SetInterfaceMTU(c, br.uuid))
    /\ UNCHANGED <<bridgeRow, ovsPorts, cothers>>

NextClient ==
    \/ CallCreate
    \/ CallDelete
    \/ CallGetExternalIDs
    \/ CallSetExternalIDs
    \/ CallGetPortUUIDList
    \/ CallDeletePorts
    \/ CallDeletePort
    \/ CallCreatePort
    \/ CallGetOFPort
    \/ CallGetPortData
    \/ CallGetPortList
    \/ CallSetInterfaceMTU

\* NewOVSBridge over a database where the bridge exists, with its gateway
\* port, or does not exist yet.
InitClient ==
    /\ busyContainerIDs = {}
    /\ waiting = {}
    /\ pc = [h \in Handlers |-> "idle"]
    /\ req = [h \in Handlers |-> NoReq]
    /\ resp = [h \in Handlers |-> NoResp]
    /\ fr = [h \in Handlers |-> NoFrame]
    /\ bridgeRow \in {NoUUID, BridgeUUID}
    /\ ovsPorts = IF HasBridgeRow(bridgeRow) THEN {GatewayPort} ELSE {}
    /\ ipamAlloc = {}
    /\ veths = EmptyMap
    /\ ifaceStore = EmptyMap
    /\ flows = EmptyMap
    /\ podList = {}
    /\ rcpc = "boot"
    /\ served = 0
    /\ rc = NoRc
    /\ br = [uuid |-> NoUUID]
    /\ call = NoCall
    /\ fn = NoFn
    /\ dial = Dialed

SpecClient == InitClient /\ [][NextClient]_vars

\* --------------------------------------------------------- validation only
\* Requests of every shape: each of the three checks passing or failing
\* independently, over supported and unsupported version strings ("" and
\* "0.4" among them).
VersionsTried ==
    {<<>>, <<0, 4>>, <<0, 1, 0>>, <<0, 2, 0>>, <<0, 3, 0>>, <<0, 3, 1>>, <<0, 4, 0>>,
     <<0, 5, 0>>, <<1, 0, 0>>}
AnyRequests ==
    {Request(v, c, dec, ver, ipamOK, NoPrev) :
        v \in Verbs, c \in ContainerIDs, dec \in BOOLEAN, ver \in VersionsTried,
        ipamOK \in BOOLEAN}

ValidateAdd(h) == Accept(h, "ADD", "add_lock", AnyRequests) /\ UNCHANGED served
ValidateDel(h) == Accept(h, "DEL", "del_lock", AnyRequests) /\ UNCHANGED served
ValidateCheck(h) == Accept(h, "CHECK", "chk_lock", AnyRequests) /\ UNCHANGED served

\* One worker validates one request after the other.
NextValidate ==
    \/ \E h \in {1} : ValidateAdd(h)
    \/ \E h \in {1} : ValidateDel(h)
    \/ \E h \in {1} : ValidateCheck(h)

SpecValidate == InitServing /\ [][NextValidate]_vars

\* ================================================================ properties
\* What exists for a container id.
HasIPAM(c) == c \in ipamAlloc
HasPort(c) == \E q \in ovsPorts : q.cid = c
HasRecord(c) == \E n \in DOMAIN ifaceStore : ifaceStore[n].ID = c
HasFlows(c) == \E n \in DOMAIN flows : flows[n].cid = c
AllAbsent(c) == ~HasIPAM(c) /\ ~HasPort(c) /\ ~HasRecord(c) /\ ~HasFlows(c)
AllPresent(c) == HasIPAM(c) /\ HasPort(c) /\ HasRecord(c) /\ HasFlows(c)

Quiescent == \A h \in Handlers : pc[h] \in {"idle", "rejected"}
\* The rollback of a failed CmdAdd has not yet taken the container lock.
RollbackPending(h) == pc[h] = "del_lock" /\ fr[h].rollback

\* C1: for every container id, at most one handler is between its
\* lockContainer and its unlockContainer.
C1_MutualExclusion ==
    \A h1, h2 \in Handlers :
        (h1 # h2 /\ InCritical(h1) /\ InCritical(h2)) => req[h1].cid # req[h2].cid

\* Two handlers contend for one container id: one holds it, the other has
\* found it busy and waits.
C1_Witness ==
    \E h1, h2 \in Handlers :
        /\ h1 # h2
        /\ InCritical(h1)
        /\ h2 \in waiting
        /\ req[h1].cid = req[h2].cid

\* C2: when a failed ADD returns (its rollback has run), nothing is left for
\* its container: no IPAM allocation, OVS port, store record or pod flows.
C2_FailedAddLeavesNothing ==
    [][\A h \in Handlers :
          (pc[h] = "del_unlock" /\ fr[h].rollback /\ pc'[h] = "idle")
              => AllAbsent(req[h].cid)']_vars

\* C3: when no handler is running, every container has its IPAM allocation,
\* OVS port, store entry and flows all present or all absent.
C3_AllOrNothing ==
    Quiescent => \A c \in ContainerIDs : AllPresent(c) \/ AllAbsent(c)

\* C4: while the rollback of a failed ADD is still to run and the ADD has
\* left something behind for its container id, no other handler is in its
\* critical section for that id.
C4_RollbackBeforeOthers ==
    \A h1, h2 \in Handlers :
        (/\ h1 # h2
         /\ RollbackPending(h1)
         /\ req[h2].cid = req[h1].cid
         /\ ~AllAbsent(req[h1].cid))
            => ~InCritical(h2)

\* C5: two handlers that operate on the same pod are never inside their
\* critical sections at the same time, whatever their container ids.
C5_SamePodExclusion ==
    \A h1, h2 \in Handlers :
        (h1 # h2 /\ InCritical(h1) /\ InCritical(h2)) => req[h1].pod # req[h2].pod

\* C6: a CHECK of version >= 0.4.0 whose prevResult names both interfaces
\* answers OK if the interfaces exist and agree with the store's record,
\* and CHECK_INTERFACE_FAILURE otherwise.
C6_CheckReportsMismatch ==
    [][\A h \in Handlers :
          (/\ pc[h] = "chk_prev"
           /\ pc'[h] = "chk_unlock"
           /\ req[h].prev.kind = "result" /\ req[h].prev.cont /\ req[h].prev.host)
          => resp'[h] =
                IF checkInterfaces(ifaceStore, veths, req[h].cid,
                                   GenerateContainerInterfaceName(req[h].pod),
                                   req[h].prev)
                THEN OK ELSE CHECK_INTERFACE_FAILURE]_vars

\* Pods of the list that the reconciler is in charge of.
ListedPods == {x.pod : x \in {y \in podList : ~y.hostNetwork}}
\* Interfaces the store held, when reconcile started, for a pod.
Known0 == {n \in DOMAIN rc.store0 : rc.store0[n].PodName # 0}

\* C7: after reconcile, the record of every listed non-host-network pod that
\* had one is still in the store and no OVS port deletion was invoked for it.
C7_SurvivorsKept ==
    rcpc = "reconciled" =>
        \A n \in Known0 :
            rc.store0[n].PodName \in ListedPods =>
                /\ n \in DOMAIN ifaceStore
                /\ ifaceStore[n] = rc.store0[n]
                /\ rc.store0[n].PortUUID \notin rc.deleteCalls

\* C8: after reconcile, for every record with a pod name whose pod is not
\* among the listed pods, OVS port deletion was invoked for its port and the
\* record is gone; for every record whose pod is listed, InstallPodFlows was
\* invoked, and where it succeeded the flows of the record are installed.
C8_OrphansRemoved ==
    rcpc = "reconciled" =>
        \A n \in Known0 :
            IF rc.store0[n].PodName \in ListedPods
            THEN /\ n \in rc.installCalls
                 /\ n \in rc.installed =>
                        (n \in DOMAIN flows /\ flows[n] = PodFlows(rc.store0[n]))
            ELSE /\ rc.store0[n].PortUUID \in rc.deleteCalls
                 /\ n \notin DOMAIN ifaceStore

\* Reconcile has finished on a store that held an orphan and a survivor.
C8_Witness ==
    /\ rcpc = "reconciled"
    /\ \E n \in Known0 : rc.store0[n].PodName \notin ListedPods
                           /\ rc.store0[n].PortUUID \in rc.deleteCalls
    /\ \E n \in Known0 : rc.store0[n].PodName \in ListedPods /\ n \in rc.installed

\* C9: when CmdAdd returns success, the container's IPAM allocation, its OVS
\* port with the external IDs of its record, the store record and the pod
\* flows are all present.
C9_SuccessfulAddComplete ==
    \A h \in Handlers :
        (pc[h] = "add_unlock" /\ resp[h] = OK) =>
            LET r == RecordOf(h)
            IN /\ HasIPAM(req[h].cid)
               /\ \E q \in ovsPorts :
                     /\ q.UUID = r.PortUUID
                     /\ q.Name = r.IfaceName
                     /\ [cid |-> q.cid, pod |-> q.pod, mac |-> q.mac, ip |-> q.ip]
                            = BuildOVSPortExternalIDs(r)
               /\ r.IfaceName \in DOMAIN ifaceStore
               /\ ifaceStore[r.IfaceName] = r
               /\ r.IfaceName \in DOMAIN flows
               /\ flows[r.IfaceName] = PodFlows(r)

\* C10: the busy set holds exactly the container ids of the handlers that
\* are between lockContainer and unlockContainer; it is empty when no
\* handler is running.
C10_LockReleased ==
    /\ busyContainerIDs = {req[h].cid : h \in {g \in Handlers : InCritical(g)}}
    /\ Quiescent => busyContainerIDs = {}

\* Every request of the run has been answered, among them an ADD that left
\* a record behind, and no handler is running.
C10_Witness ==
    /\ Quiescent
    /\ served = MaxRequests
    /\ ifaceStore # EmptyMap
    /\ busyContainerIDs = {}

\* C11: a handler whose container id is not in the busy set never waits in
\* lockContainer, whatever other ids are held: its lockContainer step takes
\* it into its critical section.
C11_NoGlobalSerialization ==
    [][\A h \in Handlers :
          (pc[h] \in LockPcs /\ req[h].cid \notin busyContainerIDs)
              => /\ h \notin waiting'
                 /\ pc'[h] # pc[h] => InCritical(h)']_vars

\* Two handlers hold distinct container ids at the same time.
C11_Witness ==
    \E h1, h2 \in Handlers :
        /\ InCritical(h1) /\ InCritical(h2)
        /\ req[h1].cid # req[h2].cid
        /\ {req[h1].cid, req[h2].cid} \subseteq busyContainerIDs

\* Every unlockContainer wakes all waiters, and a waiter's id is held by a
\* handler inside its critical section (so never do all handlers wait while
\* none holds a lock).
WakesAll ==
    [][(busyContainerIDs' # busyContainerIDs /\ busyContainerIDs' \subseteq busyContainerIDs)
          => waiting' = {}]_vars
NoLostWakeup ==
    \A h \in waiting : \E g \in Handlers : InCritical(g) /\ req[g].cid = req[h].cid

C13_ArrivalOrder ==
    [][\A g \in Handlers :
          (pc[g] \in LockPcs /\ InCritical(g)') => fr[g].ahead = {}]_vars

\* C14: whatever ExecIPAMDelete returns, CmdDel goes on to removeInterfaces
\* (flows, OVS port, veth, store entry) before it returns.
C14_DelContinues ==
    [][\A h \in Handlers :
          (pc[h] = "del_ipam" /\ pc'[h] # "del_ipam") => pc'[h] = "del_remove"]_vars

\* C15: a request that fails validation is answered with the validation's
\* response in the step that received it; that step changes neither the
\* arbitrator nor IPAM, veths, OVS ports, store or flows, and sets up no
\* rollback; no handler is ever at or past lockContainer with such a request.
C15_RejectedTouchesNothing ==
    /\ [](\A h \in Handlers :
            (pc[h] \in LockPcs \/ InCritical(h)) => checkRequestMessage(req[h]) = OK)
    /\ [][\A h \in Handlers :
            (pc'[h] = "rejected" /\ served' # served)
               => /\ checkRequestMessage(req'[h]) # OK
                  /\ resp'[h] = checkRequestMessage(req'[h])
                  /\ ~fr'[h].rollback
                  /\ UNCHANGED <<busyContainerIDs, waiting, ipamAlloc, veths,
                                 ovsPorts, ifaceStore, flows>>]_vars
    /\ [][\A h \in Handlers :
            pc[h] = "rejected" => pc'[h] \in {"rejected"} \cup LockPcs]_vars

\* An ADD with an unsupported version has been rejected while another
\* handler holds the same container id and the node has state to touch.
C15_Witness ==
    \E h, g \in Handlers :
        /\ pc[h] = "rejected" /\ req[h].verb = "ADD"
        /\ resp[h] = INCOMPATIBLE_CNI_VERSION
        /\ InCritical(g) /\ req[g].cid = req[h].cid
        /\ ipamAlloc # {}

\* C16: the response of validation is that of the first failing check, in
\* the order decoding, CNI version in {0.1.0, 0.2.0, 0.3.0, 0.3.1, 0.4.0},
\* IPAM type; a request passing all three gets no response from validation.
C16_ValidationOrder ==
    \A h \in Handlers :
        pc[h] # "idle" =>
            LET r == req[h]
                sup == r.version \in {<<0, 1, 0>>, <<0, 2, 0>>, <<0, 3, 0>>,
                                      <<0, 3, 1>>, <<0, 4, 0>>}
            IN /\ ~r.decodable => (pc[h] = "rejected" /\ resp[h] = DECODING_FAILURE)
               /\ (r.decodable /\ ~sup)
                     => (pc[h] = "rejected" /\ resp[h] = INCOMPATIBLE_CNI_VERSION)
               /\ (r.decodable /\ sup /\ ~r.ipamValid)
                     => (pc[h] = "rejected" /\ resp[h] = UNSUPPORTED_FIELD)
               /\ (r.decodable /\ sup /\ r.ipamValid)
                     => (pc[h] \in LockPcs /\ resp[h] = NoResp)

\* A request failing two checks at once has been answered.
C16_Witness ==
    \E h \in Handlers :
        /\ pc[h] = "rejected"
        /\ req[h].decodable /\ req[h].version = <<0, 5, 0>> /\ ~req[h].ipamValid
        /\ resp[h] = INCOMPATIBLE_CNI_VERSION

\* C17: a failed ADD answers IPAM_FAILURE when ExecIPAMAdd failed and
\* CONFIG_INTERFACE_FAILURE when a step of configureInterface failed; that
\* response is kept through the rollback and is what the call returns,
\* whatever the rollback's CmdDel answers.
C17_FailedAddResponse ==
    /\ [][\A h \in Handlers :
            (pc[h] = "add_ipam" /\ pc'[h] = "add_unlock") => resp'[h] = IPAM_FAILURE]_vars
    /\ [][\A h \in Handlers :
            (/\ pc[h] \in {"add_veth", "add_port", "add_ofport", "add_store", "add_flows"}
             /\ pc'[h] = "add_unlock" /\ resp'[h] # OK)
                => resp'[h] = CONFIG_INTERFACE_FAILURE]_vars
    /\ [][\A h \in Handlers :
            (pc[h] = "add_unlock" /\ resp[h] # OK /\ pc'[h] # pc[h])
                => (fr'[h].rollback /\ fr'[h].addResp = resp[h])]_vars
    /\ [][\A h \in Handlers :
            (fr[h].rollback /\ fr'[h].rollback) => fr'[h].addResp = fr[h].addResp]_vars
    /\ [](\A h \in Handlers :
            (fr[h].rollback /\ pc[h] = "del_unlock")
                => /\ Returned(h) = fr[h].addResp
                   /\ Returned(h) \in {IPAM_FAILURE, CONFIG_INTERFACE_FAILURE})

\* The rollback of an ADD that failed in configureInterface has itself
\* failed in ExecIPAMDelete and is about to return.
C17_Witness ==
    \E h \in Handlers :
        /\ pc[h] = "del_unlock" /\ fr[h].rollback
        /\ fr[h].addResp = CONFIG_INTERFACE_FAILURE
        /\ resp[h] = IPAM_FAILURE

\* C18: when a DEL finds the store record of its own container (left by a
\* successful ADD) and succeeds, ExecIPAMDelete has been called exactly once
\* and the allocation is released, OVS port deletion was given the UUID of
\* the record and no port has it, the pod flows are uninstalled, the veth
\* is absent and the store entry is gone.
C18_DelAfterAdd ==
    [][\A h \in Handlers :
          (/\ pc[h] = "del_remove" /\ pc'[h] = "del_unlock"
           /\ ~fr[h].rollback /\ resp'[h] = OK
           /\ HasContainerInterface(ifaceStore, req[h].pod)
           /\ GetContainerInterface(ifaceStore, req[h].pod).ID = req[h].cid)
          => LET r == GetContainerInterface(ifaceStore, req[h].pod)
             IN /\ fr'[h].ipamDeletes = 1
                /\ req[h].cid \notin ipamAlloc'
                /\ fr'[h].deleted = r.PortUUID
                /\ \A q \in ovsPorts' : q.UUID # r.PortUUID
                /\ r.IfaceName \notin DOMAIN flows'
                /\ r.IfaceName \notin DOMAIN veths'
                /\ r.IfaceName \notin DOMAIN ifaceStore']_vars

\* A DEL has deleted a port and is about to return success with nothing
\* left of its container.
C18_Witness ==
    \E h \in Handlers :
        /\ pc[h] = "del_unlock" /\ ~fr[h].rollback /\ resp[h] = OK
        /\ fr[h].deleted # 0 /\ fr[h].ipamDeletes = 1
        /\ AllAbsent(req[h].cid)
        /\ \A q \in ovsPorts : q.UUID # fr[h].deleted

\* C19: a handler runs only while the server is serving; the server starts
\* serving only from the state in which reconcile has returned, and once it
\* serves, reconcile takes no further step.
C19_ReconcileBeforeServing ==
    /\ [](\A h \in Handlers : pc[h] # "idle" => rcpc = "serving")
    /\ [][rcpc' = "serving" => rcpc \in {"reconciled", "serving"}]_vars
    /\ [][rcpc = "reconciled" => rcpc' \in {"reconciled", "serving"}]_vars
    /\ [][rcpc = "serving" => (rcpc' = "serving" /\ rc' = rc)]_vars

\* A handler is inside its critical section on a node whose store was
\* rebuilt from OVSDB and whose flows reconcile has replayed.
C19_Witness ==
    /\ rcpc = "serving"
    /\ \E h \in Handlers : InCritical(h)
    /\ ifaceStore # EmptyMap
    /\ flows # EmptyMap

\* C20: reconcile has returned an error exactly when listing the pods
\* failed; once the list is there no step of the loops ends it with an
\* error, and when it returns nil every pod of the list and every known
\* interface has been gone through: InstallPodFlows was invoked for every
\* listed pod with a record, and removal for every pod-named interface not
\* kept.
C20_OnlyListFails ==
    /\ [](rcpc = "failed" <=> rc.listErr)
    /\ [][(rcpc \in {"pods", "ifaces"}) => (rcpc' \in {"pods", "ifaces", "reconciled"})]_vars
    /\ [](rcpc = "reconciled" =>
            /\ rc.pods = {} /\ rc.known = {}
            /\ \A n \in Known0 :
                  /\ rc.store0[n].PodName \in ListedPods => n \in rc.installCalls
                  /\ n \notin rc.desired => rc.store0[n].PortUUID \in rc.deleteCalls)

\* Reconcile has returned nil although InstallPodFlows failed for one pod
\* and the port deletion for an interface failed; a later pod was still
\* served.
C20_Witness ==
    /\ rcpc = "reconciled"
    /\ rc.installCalls \ rc.installed # {}
    /\ rc.installed # {}
    /\ \E q \in ovsPorts : q.UUID \in rc.deleteCalls

\* ---------------------------------------------------------------------- C21
\* The step taken by a call of Initialize.
InitializeStep == rc'.init.tick # rc.init.tick

\* C21: when GetPortList returns an error, with or without port rows,
\* Initialize leaves the store empty (Len() = 0), whatever it held before,
\* and returns the error.
C21_InitializeErrorEmpties ==
    [][(InitializeStep /\ rc'.init.err) =>
          (/\ StoreLen(ifaceStore') = 0
           /\ ifaceStore' = EmptyMap
           /\ rcpc' = "store_failed")]_vars

\* Initialize has failed on a store that held two records, GetPortList
\* having returned a container port together with the error.
C21_Witness ==
    /\ rcpc = "store_failed"
    /\ rc.init.err
    /\ rc.init.held = 2
    /\ \E p \in rc.init.rows : p.cid # 0
    /\ StoreLen(ifaceStore) = 0

\* ---------------------------------------------------------------------- C22
\* The record r is the one Initialize is to rebuild from the port row p.
RecordOfRow(r, p) ==
    /\ BuildOVSPortExternalIDs(r) = [cid |-> p.cid, pod |-> p.pod, mac |-> p.mac, ip |-> p.ip]
    /\ r.PortUUID = p.UUID
    /\ r.OFPort = p.OFPort

\* C22: after a successful Initialize the store holds exactly one record
\* per port row with a non-empty container id, with pod, MAC and IP as the
\* external IDs give them and OFPort and UUID as in the row; rows without
\* the marker give no record and earlier records are gone.
C22_InitializeLoadsTagged ==
    [][(InitializeStep /\ ~rc'.init.err) =>
          LET tagged == {p \in ovsPorts : p.cid # 0}
          IN /\ rcpc' = "list"
             /\ StoreLen(ifaceStore') = Cardinality(tagged)
             /\ \A p \in tagged :
                   \E n \in DOMAIN ifaceStore' : RecordOfRow(ifaceStore'[n], p)
             /\ \A n \in DOMAIN ifaceStore' :
                   \E p \in tagged : RecordOfRow(ifaceStore'[n], p)]_vars

\* Initialize has succeeded on a store that held two records over a bridge
\* with the gateway port and one container port: one record is left.
C22_Witness ==
    /\ rcpc = "list"
    /\ ~rc.init.err
    /\ rc.init.held = 2
    /\ GatewayPort \in ovsPorts
    /\ Cardinality(ovsPorts) = 2
    /\ StoreLen(ifaceStore) = 1
    /\ \E n \in DOMAIN ifaceStore, p \in ovsPorts : RecordOfRow(ifaceStore[n], p)

C24_OneRecordPerPod ==
    \A n, m \in DOMAIN ifaceStore :
        ifaceStore[n].PodName = ifaceStore[m].PodName => n = m

\* Two ADD handlers with different container ids of one pod have both
\* inserted their record; the store holds one record.
C24_Witness ==
    \E h, g \in Handlers :
        /\ pc[h] = "add_flows" /\ pc[g] = "add_flows"
        /\ req[h].cid # req[g].cid
        /\ req[h].pod = req[g].pod
        /\ StoreLen(ifaceStore) = 1

\* ---------------------------------------------------------------------- C25
\* C25: every record of the store has an OVS port with the same UUID whose
\* external IDs agree with it on container id, pod, MAC and IP.
C25_RecordHasPort ==
    \A n \in DOMAIN ifaceStore :
        \E q \in ovsPorts :
            /\ q.UUID = ifaceStore[n].PortUUID
            /\ BuildOVSPortExternalIDs(ifaceStore[n]) =
                  [cid |-> q.cid, pod |-> q.pod, mac |-> q.mac, ip |-> q.ip]

\* ---------------------------------------------------------------------- C26
\* C26: when the OVSDB wait on the ofport column times out, GetOFPort
\* returns ofport 0 and no error, and the ADD handler that called it goes on
\* to the store insertion with ofport 0 instead of failing.
C26_TimeoutYieldsZero ==
    [][\A h \in Handlers :
          (pc[h] = "add_ofport" /\ pc'[h] # "add_ofport" /\ fr'[h].ofwait = "timed out") =>
             (/\ GetOFPort(CommitTimedOut, 0) = [ofport |-> 0, error |-> NoError]
              /\ pc'[h] = "add_store"
              /\ fr'[h].ofport = 0
              /\ resp'[h] = resp[h])]_vars

\* The call of this step ended in a commit that failed.
CommitFailed == call.commits # <<>> /\ call.commits[Len(call.commits)].err
FailedCommit == call.commits[Len(call.commits)]
\* What a method returns when its commit fails: the commit's message and
\* flag, and no data.
ReturnsCommitError ==
    /\ ~call.ret.panic
    /\ call.ret.error = NewTransactionError(FailedCommit.msg, FailedCommit.temporary)
    /\ call.ret.error.msg # ""
    /\ call.ret.data = ZeroData(call.op)

MissingRow ==
    /\ call.commits # <<>>
    /\ ~CommitFailed
    /\ \/ /\ call.op \in {"GetExternalIDs", "GetPortUUIDList"}
          /\ ~HasBridgeRow(bridgeRow)
       \/ /\ call.op = "GetPortData"
          /\ \E q \in ovsPorts : q.UUID = call.args.port
          /\ \A q \in ovsPorts : q.Name = call.args.ifName => q.UUID # call.args.port

\* C28: a missing row the caller asserted present yields a permanent error,
\* never success and never a crash (GetPortData, GetExternalIDs,
\* GetPortUUIDList).
C28_MissingRowPermanent ==
    MissingRow =>
        /\ ~call.ret.panic
        /\ call.ret.error.err
        /\ ~call.ret.error.temporary

\* The time between message i and the one before it (the start for i = 1).
MsgInterval(i) == dial.msgs[i] - (IF i = 1 THEN 0 ELSE dial.msgs[i - 1])
\* The caller returns only once connected and never with an error; the
\* intervals between messages double from 1 s up to 8 s.
DialSafe ==
    /\ dial.pc = "returned" => (dial.reachable /\ ~dial.error.err)
    /\ dial.pc # "dialing" => dial.reachable
    /\ \A i \in 1..Len(dial.msgs) :
         /\ MsgInterval(i) <= maxBackoffTime
         /\ i = 1 => MsgInterval(i) = 1
         /\ i > 1 => \/ MsgInterval(i) = 2 * MsgInterval(i - 1)
                     \/ MsgInterval(i) = maxBackoffTime /\ MsgInterval(i - 1) >= 4

\* C29: NewOVSDBConnectionUDS never returns an error and returns only once
\* connected; the interval between progress messages doubles from 1 s and
\* never exceeds 8 s; the logging goroutine terminates once the connection
\* has succeeded.
C29_DialBlocksAndLogs ==
    /\ []DialSafe
    /\ (dial.pc # "dialing") ~> (dial.logger = "done")

C29_Witness ==
    /\ dial.pc = "returned"
    /\ dial.logger = "done"
    /\ Len(dial.msgs) >= 5
    /\ MsgInterval(4) = maxBackoffTime
    /\ MsgInterval(5) = maxBackoffTime

\* The steps of a successful ADD the order is claimed of.
AddOrder == <<"ipam", "port", "ofport", "store", "flows">>
IsPrefix(s, t) == Len(s) <= Len(t) /\ \A i \in 1..Len(s) : s[i] = t[i]
\* The steps handler h has taken, but for the creation of the veth pair.
AddSteps(h) == SelectSeq(fr[h].steps, LAMBDA x : x # "veth")

\* C30: within one successful ADD the steps are IPAM Add, OVS port creation,
\* ofport lookup, store insertion, flow installation, response, in that
\* order; the record is in the store only after the port insert returned,
\* and pod flows are installed exactly once.
C30_AddOrder ==
    \A h \in Handlers :
        /\ IsPrefix(AddSteps(h), AddOrder)
        /\ (pc[h] = "add_unlock" /\ resp[h] = OK) => AddSteps(h) = AddOrder

C30_Witness ==
    \E h \in Handlers :
        /\ pc[h] = "add_unlock"
        /\ resp[h] = OK
        /\ AddSteps(h) = AddOrder
        /\ HasInterface(ifaceStore, GenerateContainerInterfaceName(req[h].pod))
        /\ GenerateContainerInterfaceName(req[h].pod) \in DOMAIN flows

\* This step is one of handler h serving a CHECK request.
CheckStep(h) ==
    /\ pc'[h] # pc[h]
    /\ req[h].verb = "CHECK" \/ req'[h].verb = "CHECK"
\* The request of h is a CHECK with the inputs and the result of the ADD that
\* attached its container, whose networking is in place.
ChecksItsAdd(h) ==
    LET name == GenerateContainerInterfaceName(req[h].pod)
    IN /\ req[h].verb = "CHECK"
       /\ AllPresent(req[h].cid)
       /\ name \in DOMAIN veths
       /\ req[h].version = <<0, 4, 0>> =>
             req[h].prev = [kind |-> "result", cont |-> TRUE, host |-> TRUE,
                            mac |-> veths[name]]

\* C31: a CHECK request, successful or failed, changes no IPAM allocation,
\* OVS port, store record or flow; a CHECK after a successful ADD, with the
\* same inputs, returns success once IPAM's own check has passed.
C31_CheckReadOnly ==
    [][\A h \in Handlers :
          CheckStep(h) =>
             /\ UNCHANGED <<ipamAlloc, veths, ovsPorts, ifaceStore, flows>>
             /\ (ChecksItsAdd(h) /\ pc'[h] = "chk_unlock" /\ resp'[h] # IPAM_FAILURE)
                   => resp'[h] = OK]_vars

C31_Witness ==
    \E h \in Handlers :
        /\ pc[h] = "chk_unlock"
        /\ ChecksItsAdd(h)
        /\ req[h].version = <<0, 4, 0>>
        /\ resp[h] = OK

\* Handler h returns from CmdCheck's body in this step.
CheckReturns(h) ==
    /\ req[h].verb = "CHECK"
    /\ pc[h] \in {"chk_ipam", "chk_prev"}
    /\ pc'[h] = "chk_unlock"

\* C32: a CHECK with a CNI version below 0.4.0 skips the prevResult step, so
\* it answers with IPAM Check's verdict whatever prevResult it carries; with
\* version 0.4.0 a missing prevResult gives UNSUPPORTED_FIELD and an
\* undecodable one DECODING_FAILURE.
C32_CheckByVersion ==
    [][\A h \in Handlers :
          CheckReturns(h) =>
             IF req[h].version # <<0, 4, 0>>
             THEN pc[h] = "chk_ipam" /\ resp'[h] \in {OK, IPAM_FAILURE}
             ELSE /\ pc[h] = "chk_ipam" => resp'[h] = IPAM_FAILURE
                  /\ (pc[h] = "chk_prev" /\ req[h].prev.kind = "none")
                        => resp'[h] = UNSUPPORTED_FIELD
                  /\ (pc[h] = "chk_prev" /\ req[h].prev.kind = "bad")
                        => resp'[h] = DECODING_FAILURE]_vars

C32_Witness ==
    \E h, g \in Handlers :
        /\ pc[h] = "chk_unlock" /\ pc[g] = "chk_unlock"
        /\ req[h].version = <<0, 3, 1>> /\ req[h].prev.kind = "bad" /\ resp[h] = OK
        /\ req[g].version = <<0, 4, 0>> /\ req[g].prev.kind = "none"
        /\ resp[g] = UNSUPPORTED_FIELD

\* The number of default routes in a list.
DefaultRoutes(list) == Cardinality({i \in DOMAIN list : list[i].dst = [ip |-> 0, bits |-> 0]})
\* The network address of [ip, bits]: the greatest multiple of the subnet's
\* size not above ip.
NetworkOf(ipn) ==
    CHOOSE n \in IPs : /\ n <= ipn.ip
                       /\ ipn.ip < n + 2 ^ (IPBits - ipn.bits)
                       /\ \E k \in IPs : n = k * 2 ^ (IPBits - ipn.bits)

\* C33: updateResultIfaceConfig gives every address interface index 1,
\* derives a missing gateway as the network address + 1 and keeps a supplied
\* one, appends a default route via the node gateway iff none is present,
\* and applied twice gives what it gives applied once.
C33_Normalized ==
    /\ fn.op \in {"updateResultIfaceConfig", "again"} =>
         /\ DOMAIN fn.ret.IPs = DOMAIN fn.arg.IPs
         /\ \A i \in DOMAIN fn.arg.IPs :
              /\ fn.ret.IPs[i].interface = {1}
              /\ fn.ret.IPs[i].address = fn.arg.IPs[i].address
              /\ fn.ret.IPs[i].gateway =
                    IF fn.arg.IPs[i].gateway = {}
                    THEN {NetworkOf(fn.arg.IPs[i].address) + 1}
                    ELSE fn.arg.IPs[i].gateway
         /\ ~fn.ret.Routes.nil
         /\ DefaultRoutes(fn.ret.Routes.list) >= 1
         /\ fn.ret.Routes.list =
               IF DefaultRoutes(fn.arg.Routes.list) > 0 THEN fn.arg.Routes.list
               ELSE Append(fn.arg.Routes.list,
                           [dst |-> [ip |-> 0, bits |-> 0], gw |-> fn.gw])
    /\ fn.op = "again" => fn.ret = fn.arg

C33_Witness ==
    /\ fn.op = "again"
    /\ Len(fn.arg.IPs) = 2
    /\ Len(fn.arg.Routes.list) = 2
    /\ DefaultRoutes(fn.arg.Routes.list) = 1
    /\ fn.arg.Routes.list[2].dst = [ip |-> 0, bits |-> 0]
    /\ fn.ret = fn.arg

\* The configuration of this call reaches IPAM: it was decoded.
PassedToIPAM == fn.op = "loadNetworkConfig" /\ ~fn.ret.err
\* A key keeps its value; an absent key and its zero value are the same.
SameValue(a, b, zero) ==
    (IF a = {} THEN {zero} ELSE a) = (IF b = {} THEN {zero} ELSE b)
Rewritten ==
    /\ fn.ret.NetworkConfiguration.ipam.subnet = {fn.server.podCIDR}
    /\ fn.ret.NetworkConfiguration.ipam.gateway = {fn.server.gateway}
DeclaredPreserved ==
    /\ SameValue(fn.ret.NetworkConfiguration.cniVersion, fn.arg.cniVersion, "")
    /\ SameValue(fn.ret.NetworkConfiguration.name, fn.arg.name, "")
    /\ SameValue(fn.ret.NetworkConfiguration.mtu, fn.arg.mtu, 0)
    /\ SameValue(fn.ret.NetworkConfiguration.dns, fn.arg.dns, "")
    /\ SameValue(fn.ret.NetworkConfiguration.ipam.type, fn.arg.ipam.type, "")

\* C34 (as claimed): the configuration passed to IPAM has ipam.subnet equal
\* to the node's pod CIDR and ipam.gateway equal to the node's gateway IP,
\* whatever the caller supplied, and every other field is preserved.
C34_ConfigPreserved ==
    PassedToIPAM =>
        /\ Rewritten
        /\ DeclaredPreserved
        /\ fn.ret.NetworkConfiguration.vlan = fn.arg.vlan

\* C34 (amended): ipam.subnet and ipam.gateway are the node's; the fields the
\* NetworkConfig struct declares are preserved; keys it does not declare
\* are dropped.
C34_ConfigRewritten ==
    PassedToIPAM =>
        /\ Rewritten
        /\ DeclaredPreserved
        /\ fn.ret.NetworkConfiguration.vlan = {}

C34_Witness ==
    /\ PassedToIPAM
    /\ fn.verb = "DEL"
    /\ fn.arg.ipam.subnet = {"10.9.0.0/24"}
    /\ fn.arg.ipam.gateway = {"10.9.0.1"}
    /\ fn.arg.vlan = {"100"}
    /\ fn.arg.mtu = {1400}
    /\ fn.ret.NetworkConfiguration.ipam.subnet = {"10.1.0.0/24"}
    /\ fn.ret.NetworkConfiguration.mtu = {1400}

\* The pods reconcile replays flows for: listed, not host-network, with a
\* record in the store as Initialize left it.
Replayed ==
    {p.pod : p \in {x \in podList : ~x.hostNetwork /\ HasContainerInterface(rc.store0, x.pod)}}
\* The number of InstallPodFlows calls for pod p.
InstallCallsFor(p) == Cardinality({i \in DOMAIN rc.installs : rc.installs[i] = p})

CreatePortStep == call'.op = "CreatePort" /\ call' # call
DataOfRow(d, q) ==
    /\ d.UUID = q.UUID
    /\ d.Name = q.Name
    /\ d.OFPort \in Int
    /\ (d.OFPort = 0) = (ofportColumn(q) = EmptyColumn)
    /\ d.OFPort # 0 => Number(d.OFPort) = ofportColumn(q)
C37_PortDataOFPort ==
    /\ (call.op = "GetPortList" /\ ~call.commits[1].err) =>
          /\ ~call.ret.error.err
          /\ ~call.ret.data.nil
          /\ IF ~HasBridgeRow(bridgeRow)
                THEN call.ret.data.items = {}
                ELSE /\ Cardinality(call.ret.data.items) = Cardinality(ovsPorts)
                     /\ \A q \in ovsPorts : \E d \in call.ret.data.items : DataOfRow(d, q)
    /\ (call.op = "GetPortData" /\ ~call.commits[1].err) =>
          IF \A q \in ovsPorts : q.UUID # call.args.port
            THEN call.ret.data = Nil /\ ~call.ret.error.err
            ELSE \/ call.ret.data = Nil /\ call.ret.error.err /\ ~call.ret.error.temporary
                 \/ /\ ~call.ret.error.err
                    /\ \E q \in ovsPorts, d \in call.ret.data.items :
                         /\ call.ret.data.items = {d}
                         /\ q.UUID = call.args.port
                         /\ q.Name = call.args.ifName
                         /\ DataOfRow(d, q)
\* GetPortList has returned a port whose ofport is assigned and one whose
\* ofport is not.
C37_Witness ==
    /\ call.op = "GetPortList"
    /\ ~call.ret.error.err
    /\ \E d, e \in call.ret.data.items :
         /\ d.OFPort = 0 /\ e.OFPort # 0
         /\ \E q \in ovsPorts : q.UUID = d.UUID /\ q.OFPort = 0

\* C38: the temporary flag of an OVSDB failure decides the response of the
\* handler: an ADD whose GetOFPort fails with a temporary error answers
\* TRY_AGAIN_LATER, and one whose GetOFPort fails permanently answers
\* CONFIG_INTERFACE_FAILURE.
OVSFailureOf(h) ==
    {c \in OFPortCommits(TRUE) \cup OFPortCommits(FALSE) : c.err /\ c.msg = fr[h].ofwait}
C38_TemporaryDecidesResponse ==
    [][\A h \in Handlers :
          (pc[h] = "add_ofport" /\ pc'[h] = "add_unlock") =>
             \A c \in OVSFailureOf(h)' :
                resp'[h] = IF c.temporary THEN TRY_AGAIN_LATER
                           ELSE CONFIG_INTERFACE_FAILURE]_vars

\* C39: an ADD that fails while it holds its container id always terminates:
\* its rollback takes the container id again and returns.  The deferred
\* unlockContainer has released the id when the rollback's CmdDel calls
\* lockContainer; the rollback is started by a failed ADD and by nothing
\* else, once, and a successful ADD returns without it.
FailedAdd(h) == pc[h] = "add_unlock" /\ resp[h] # OK
InRollback(h) == fr[h].rollback
RollbackOnce ==
    [][\A h \in Handlers :
          /\ (pc[h] = "add_unlock" /\ pc'[h] # "add_unlock") =>
                /\ req[h].cid \notin busyContainerIDs'
                /\ InRollback(h)' = (resp[h] # OK)
                /\ pc'[h] = IF resp[h] # OK THEN "del_lock" ELSE "idle"
          /\ (InRollback(h)' /\ ~InRollback(h)) => FailedAdd(h)
          /\ (InRollback(h) /\ pc[h] = "del_unlock" /\ pc'[h] # "del_unlock") =>
                (pc'[h] = "idle" /\ ~InRollback(h)')]_vars
RollbackAtLock(h) == InRollback(h) /\ pc[h] = "del_lock"
AbsentState(c) ==
    /\ \A n \in DOMAIN ifaceStore : ifaceStore[n].ID # c
    /\ \A q \in ovsPorts : q.cid # c
VethLeft(c) ==
    /\ GenerateContainerInterfaceName(PodOf(c)) \in DOMAIN veths
    /\ GenerateContainerInterfaceName(PodOf(c)) \in DOMAIN veths'
C40_DelIdempotent ==
    [][\A h \in Handlers :
          (pc[h] = "del_remove" /\ pc'[h] # "del_remove" /\ AbsentState(req[h].cid)) =>
             (/\ resp'[h] = OK \/ VethLeft(req[h].cid)
              /\ UNCHANGED <<ifaceStore, ovsPorts, flows>>)]_vars

====
